---------------------------- MODULE Spec2Model ----------------------------
(***************************************************************************)
(* A model of the decision core of the access-control proxy:               *)
(*   - the message-signing authenticator (pipeline/authn,                  *)
(*     AuthenticatorPre9421): configuration validation, body / challenge   *)
(*     pre-checks, the multi-authority evaluation loop;                    *)
(*   - the remote-JSON authorizer (AuthorizerRemoteJSON) and signPayload.  *)
(*                                                                         *)
(* Strings whose content the code inspects (issuers, allow-list entries,   *)
(* header values) are sequences of one-character strings, so that prefix,  *)
(* suffix and regular-expression operations are computed, not assumed.     *)
(* Times are whole seconds; time.Duration is a signed integer of DurBits   *)
(* bits (int64 nanoseconds in the program) with Go's wrap-around addition  *)
(* and the saturating Time.Sub.                                            *)
(***************************************************************************)
EXTENDS Integers, Sequences, FiniteSets, TLC

VARIABLES
    maxChallengeAge,  \* AuthenticatorPre9421.maxChallengeAge (field of the instance)
    config,           \* the raw configuration of the last authenticator call
    request,          \* the request of the last Authenticate call
    now,              \* time.Now() observed by the last Authenticate call
    verifies,         \* the authorities for which the external verifier succeeds
    outcome,          \* what the last call returned and did
    templates,        \* AuthorizerRemoteJSON.t: the template set, id -> text
    client,           \* AuthorizerRemoteJSON.client: its retry wait and timeout
    azCall,           \* the arguments of the authorizer call in progress
    azOutcome,        \* what that call returned and did
    scopeCall,        \* the scope strategy call in progress and its result
    engines,          \* the regexpMatchingEngine instances: compiled, checksum, table
    tasks,            \* the engine operation each task is running, and where it is
    matching,         \* the matchFrom call in progress: its frames and last result
    callers,          \* the calls running concurrently on one authenticator instance
    reader            \* a request body behind a reusableReader, and who read what

authnVars == <<maxChallengeAge, config, request, now, verifies, outcome>>

authzVars == <<templates, client, azCall, azOutcome>>

scopeVars == <<scopeCall>>

engineVars == <<engines, tasks>>

matchVars == <<matching>>

callerVars == <<callers>>

readerVars == <<reader>>

vars == <<authnVars, authzVars, scopeVars, engineVars, matchVars, callerVars, readerVars>>

-----------------------------------------------------------------------------
(* Bounds of the model *)

\* the largest number of authorities in a configuration
MaxAuthorities == 2

\* width in bits of the model's time.Duration (64 in the program)
DurBits == 7

\* the number of Duration units in a millisecond (10^6 in the program)
Millisecond == 4

\* the largest number of dot-separated segments of a generated scope
MaxSegments == 3

\* width in bits of the model's CRC checksum (64 in the program)
ChecksumBits == 4

\* the largest number of bytes of a request body
MaxBodyLen == 3

\* the largest number of bytes one Read asks for
MaxRead == 2

-----------------------------------------------------------------------------
(* Strings *)

HasPrefix(s, p) == Len(s) >= Len(p) /\ SubSeq(s, 1, Len(p)) = p

HasSuffix(s, p) == Len(s) >= Len(p) /\ SubSeq(s, Len(s) - Len(p) + 1, Len(s)) = p

TrimPrefix(s, p) == IF HasPrefix(s, p) THEN SubSeq(s, Len(p) + 1, Len(s)) ELSE s

Contains(list, x) == \E k \in 1..Len(list) : list[k] = x

regexPrefix == <<"r", "e", "g", "e", "x", ":">>

regexpPrefix == <<"r", "e", "g", "e", "x", "p", ":">>

insecurePrefix == <<"h", "t", "t", "p", ":", "/", "/">>

defaultSignatureHeader == "x-jwks-signature"

defaultKidHeader == "x-jwks-signature-kid"

defaultIssuerHeader == "x-jwks-issuer"

challenge == "challenge"

-----------------------------------------------------------------------------
(* time.Duration *)

DurMax == 2 ^ (DurBits - 1) - 1

DurMin == 0 - 2 ^ (DurBits - 1)

\* Go's signed addition: the sum modulo 2^DurBits
DurAdd(a, b) == ((a + b - DurMin) % (2 ^ DurBits)) + DurMin

\* time.Time.Sub: the difference, saturated at the largest / smallest Duration
TimeSub(t, u) ==
    IF t - u > DurMax THEN DurMax
    ELSE IF t - u < DurMin THEN DurMin
    ELSE t - u

jitter == 30

defaultMaxAge == 30

\* time.ParseDuration on the duration texts the configurations use; "max" is
\* the text of the largest Duration and "max-30s" of the largest minus 30s.
DurationValue(s) ==
    CASE s = "-1s" -> -1
      [] s = "0s" -> 0
      [] s = "1s" -> 1
      [] s = "30s" -> 30
      [] s = "1m" -> 60
      [] s = "max-30s" -> DurMax - 30
      [] s = "max" -> DurMax
      [] OTHER -> DurMax + 1

ParseDuration(s) ==
    LET v == DurationValue(s)
    IN  IF v > DurMax THEN [ok |-> FALSE, d |-> 0] ELSE [ok |-> TRUE, d |-> v]

-----------------------------------------------------------------------------
(* regexp2: the fragment the allow-lists use.  A pattern is a sequence of  *)
(* characters: ^ (start of text), $ (end of text), . (any character), a    *)
(* literal, each of the last two optionally followed by *.  Compilation    *)
(* fails on unbalanced parentheses; the matcher is defined on patterns     *)
(* without parentheses.                                                    *)

RECURSIVE Balanced(_, _, _)
Balanced(p, i, depth) ==
    IF i > Len(p) THEN depth = 0
    ELSE IF p[i] = "(" THEN Balanced(p, i + 1, depth + 1)
    ELSE IF p[i] = ")" THEN depth > 0 /\ Balanced(p, i + 1, depth - 1)
    ELSE Balanced(p, i + 1, depth)

RegexCompile(p) ==
    IF Balanced(p, 1, 0) THEN [ok |-> TRUE, re |-> p] ELSE [ok |-> FALSE, re |-> <<>>]

RECURSIVE MatchHere(_, _, _, _)
MatchHere(re, i, s, j) ==
    IF i > Len(re) THEN TRUE
    ELSE IF re[i] = "^" THEN j = 1 /\ MatchHere(re, i + 1, s, j)
    ELSE IF re[i] = "$" THEN j = Len(s) + 1 /\ MatchHere(re, i + 1, s, j)
    ELSE LET here == j <= Len(s) /\ (re[i] = "." \/ re[i] = s[j])
         IN  IF i < Len(re) /\ re[i + 1] = "*"
             THEN MatchHere(re, i + 2, s, j) \/ (here /\ MatchHere(re, i, s, j + 1))
             ELSE here /\ MatchHere(re, i + 1, s, j + 1)

MatchString(re, s) == \E start \in 1..(Len(s) + 1) : MatchHere(re, 1, s, start)

-----------------------------------------------------------------------------
(* The authenticator's inputs *)

\* a *string of the Headers struct: <<>> is nil, <<name>> points to name
HeaderName(ptr, default) ==
    IF ptr = <<>> THEN default
    ELSE IF ptr[1] = "" THEN default
    ELSE ptr[1]

\* http.Header.Get: the value of the header, the empty string when absent
HeaderGet(header, name) == IF name \in DOMAIN header THEN header[name] ELSE <<>>

\* url.Values: whether the key occurs, and the first value for it
QueryHas(query, key) == \E k \in 1..Len(query) : query[k].key = key

QueryGet(query, key) ==
    LET first == CHOOSE k \in 1..Len(query) :
                     /\ query[k].key = key
                     /\ \A m \in 1..(k - 1) : query[m].key # key
    IN  query[first].val

\* ulid.Parse followed by ULID.Time: a challenge text is <<"ulid", t>>, the
\* encoding of an identifier created at time t, or anything else, which
\* ulid.Parse refuses.
UlidParse(text) ==
    IF Len(text) = 2 /\ text[1] = "ulid"
    THEN [ok |-> TRUE, time |-> text[2]]
    ELSE [ok |-> FALSE, time |-> 0]

\* configuration.Provider.ParseURLs on the key-discovery URL of an issuer:
\* url.Parse refuses a text with an invalid escape such as "%/."
ParseURLsOK(issuer) == ~Contains(issuer, "%")

-----------------------------------------------------------------------------
(* AuthenticatorPre9421.Config *)

\* one allow-list entry compiled as written after its prefix, with neither ^
\* nor $ added
CompileEntry_Unanchored(entry) ==
    LET hasRegexPrefix == HasPrefix(entry, regexPrefix)
        hasRegexpPrefix == HasPrefix(entry, regexpPrefix)
        stripped == IF hasRegexPrefix THEN TrimPrefix(entry, regexPrefix)
                    ELSE TrimPrefix(entry, regexpPrefix)
        compiled == RegexCompile(stripped)
    IN  IF (hasRegexPrefix \/ hasRegexpPrefix) /\ compiled.ok
        THEN <<compiled.re>>
        ELSE <<>>

\* one allow-list entry: strip the prefix, anchor, compile; <<>> when the
\* entry has no prefix or does not compile, <<re>> otherwise
CompileEntry(entry) ==
    LET hasRegexPrefix == HasPrefix(entry, regexPrefix)
        hasRegexpPrefix == HasPrefix(entry, regexpPrefix)
        stripped == IF hasRegexPrefix THEN TrimPrefix(entry, regexPrefix)
                    ELSE TrimPrefix(entry, regexpPrefix)
        front == IF HasPrefix(stripped, <<"^">>) THEN stripped ELSE <<"^">> \o stripped
        anchored == IF HasSuffix(front, <<"$">>) THEN front ELSE front \o <<"$">>
        compiled == RegexCompile(anchored)
    IN  IF (hasRegexPrefix \/ hasRegexpPrefix) /\ compiled.ok
        THEN <<compiled.re>>
        ELSE <<>>

RECURSIVE CompileEntries(_, _)
CompileEntries(entries, k) ==
    IF k > Len(entries) THEN <<>>
    ELSE CompileEntry(entries[k]) \o CompileEntries(entries, k + 1)

\* the result of Config: err, the validated configuration c, and the value
\* stored into x.maxChallengeAge (store = FALSE: the field is left alone)
Config(raw) ==
    LET parsed == IF raw.MaxChallengeAge # ""
                  THEN ParseDuration(raw.MaxChallengeAge)
                  ELSE [ok |-> TRUE, d |-> defaultMaxAge]
    IN  IF ~raw.valid
        THEN [err |-> "Misconfigured", store |-> FALSE, maxAge |-> 0, c |-> raw]
        ELSE IF ~parsed.ok
        THEN [err |-> "InvalidDuration", store |-> FALSE, maxAge |-> 0, c |-> raw]
        ELSE [err |-> "nil", store |-> TRUE, maxAge |-> parsed.d,
              c |-> [raw EXCEPT
                       !.MaxChallengeAge =
                           IF raw.MaxChallengeAge = "" THEN "30s" ELSE raw.MaxChallengeAge,
                       !.Authorities =
                           [i \in 1..Len(raw.Authorities) |->
                               [raw.Authorities[i] EXCEPT
                                   !.allowedIssuersRegex =
                                       CompileEntries(raw.Authorities[i].AllowedIssuers, 1)]]]]

-----------------------------------------------------------------------------
(* AuthenticatorPre9421Config.allowedIssuer *)

AuthorityAllows(authority, issuer) ==
    /\ Len(authority.AllowedIssuers) # 0
    /\ \/ /\ Len(authority.allowedIssuersRegex) = 0
          /\ Contains(authority.AllowedIssuers, issuer)
       \/ \E k \in 1..Len(authority.allowedIssuersRegex) :
              MatchString(authority.allowedIssuersRegex[k], issuer)

allowedIssuer(cf, issuer) ==
    /\ Len(cf.Authorities) # 0
    /\ ~(HasPrefix(issuer, insecurePrefix) /\ ~cf.AllowInsecure)
    /\ \E i \in 1..Len(cf.Authorities) : AuthorityAllows(cf.Authorities[i], issuer)

-----------------------------------------------------------------------------
(* AuthenticatorPre9421.Authenticate *)

\* errors.Join: the causes of both, in order (a nil error has no cause)
Join(err, cause) == err \o <<cause>>

\* hasRequestBody, hasQueryParams
hasRequestBody(r) == Len(r.body) > 0

\* hasQueryParams without the test of the raw query
hasQueryParams_WithoutRawQueryTest(r) == TRUE

hasQueryParams(r) == Len(r.query) > 0

\* the switch of Authenticate: the canonical body, the challenge identifier
\* (<<>> is nil) and the invalid flag.  maxAge is x.maxChallengeAge.
ExtractBody(r, maxAge) ==
    IF hasRequestBody(r)
    THEN [body |-> r.body, id |-> <<>>, invalid |-> FALSE]
    ELSE IF hasQueryParams(r)
    THEN IF maxAge > 0
         THEN IF QueryHas(r.query, challenge)
              THEN LET uid == UlidParse(QueryGet(r.query, challenge))
                   IN  IF uid.ok
                       THEN [body |-> r.query, id |-> <<uid.time>>, invalid |-> FALSE]
                       ELSE [body |-> r.query, id |-> <<>>, invalid |-> TRUE]
              ELSE [body |-> r.query, id |-> <<>>, invalid |-> TRUE]
         ELSE [body |-> r.query, id |-> <<>>, invalid |-> FALSE]
    ELSE [body |-> <<>>, id |-> <<>>, invalid |-> TRUE]

\* ChallengeExpired without the jitter tolerance
ChallengeExpired_WithoutJitter(id, maxAge, t) ==
    /\ id # <<>>
    /\ maxAge > 0
    /\ TimeSub(t, id[1]) > maxAge

\* the freshness test of the challenge identifier
ChallengeExpired(id, maxAge, t) ==
    /\ id # <<>>
    /\ maxAge > 0
    /\ TimeSub(t, id[1]) > DurAdd(maxAge, jitter)

\* the three headers one authority reads from the request
ReadHeaders(authority, r) ==
    [signature |-> HeaderGet(r.header,
                       HeaderName(authority.Headers.Signature, defaultSignatureHeader)),
     kid |-> HeaderGet(r.header, HeaderName(authority.Headers.Kid, defaultKidHeader)),
     issuer |-> HeaderGet(r.header,
                    HeaderName(authority.Headers.Issuer, defaultIssuerHeader))]

\* the error left in err after the verifier's call for authority i: the
\* assignment err = VerifyPayload(...) replaces what err held
AfterVerify(err, i, ok) ==
    IF ok THEN <<>> ELSE <<[authority |-> i, cause |-> "verify"]>>

\* Applicable without the test of the key-id header
Applicable_WithoutKidTest(cf, h) ==
    IF Len(h.signature) = 0 THEN "no-signature"
    ELSE IF Len(h.issuer) = 0 THEN "no-issuer"
    ELSE IF ~allowedIssuer(cf, h.issuer) THEN "issuer-rejected"
    ELSE "verify"

\* what the loop does with one authority whose headers are h: the reason it
\* skips it, or "verify" when it goes on to the verifier
Applicable(cf, h) ==
    IF Len(h.signature) = 0 THEN "no-signature"
    ELSE IF Len(h.kid) = 0 THEN "no-kid"
    ELSE IF Len(h.issuer) = 0 THEN "no-issuer"
    ELSE IF ~allowedIssuer(cf, h.issuer) THEN "issuer-rejected"
    ELSE "verify"

\* ReturnsAfterVerify for a loop that goes on after a successful verification
ReturnsAfterVerify_Never(ok) == FALSE

\* whether the loop returns nil after the verifier's call (ok: it succeeded)
ReturnsAfterVerify(ok) == ok

\* the loop over cf.Authorities from index i on; err is the error variable,
\* seen the per-authority log and calls the verifier's calls so far
RECURSIVE EvaluateFrom(_, _, _, _, _, _, _, _)
EvaluateFrom(cf, r, body, oks, i, err, seen, calls) ==
    IF i > Len(cf.Authorities)
    THEN [result |-> "Unauthorized", err |-> err, seen |-> seen, calls |-> calls]
    ELSE
      LET h == ReadHeaders(cf.Authorities[i], r)
          step == Applicable(cf, h)
          parsed == ParseURLsOK(h.issuer)
          err1 == IF parsed THEN err
                  ELSE Join(err, [authority |-> i, cause |-> "url"])
          ok == i \in oks
          err2 == AfterVerify(err1, i, ok)
          call == [authority |-> i, keyURLs |-> parsed, issuer |-> h.issuer,
                   kid |-> h.kid, signature |-> h.signature, body |-> body, ok |-> ok]
          entry(what) == [authority |-> i, step |-> what, issuer |-> h.issuer]
      IN  IF step # "verify"
          THEN EvaluateFrom(cf, r, body, oks, i + 1, err, Append(seen, entry(step)), calls)
          ELSE IF ReturnsAfterVerify(ok)
          THEN [result |-> "nil", err |-> err2, seen |-> Append(seen, entry("verified")),
                calls |-> Append(calls, call)]
          ELSE EvaluateFrom(cf, r, body, oks, i + 1, err2,
                            Append(seen, entry(IF ok THEN "verified" ELSE "failed")),
                            Append(calls, call))

NoCall(op, result, at, c) ==
    [op |-> op, result |-> result, at |-> at, cf |-> c, body |-> <<>>,
     seen |-> <<>>, calls |-> <<>>, trace |-> <<>>]

\* what Authenticate returns and does; maxAge is x.maxChallengeAge as the
\* call reads it after its own Config
AuthenticateResult(conf, maxAge, r, t, oks) ==
    LET x == ExtractBody(r, maxAge)
    IN  IF conf.err # "nil" THEN NoCall("Authenticate", conf.err, "config", conf.c)
        ELSE IF Len(conf.c.Authorities) = 0
        THEN NoCall("Authenticate", "NotResponsible", "no-authorities", conf.c)
        ELSE IF x.invalid
        THEN NoCall("Authenticate", "NotResponsible", "invalid", conf.c)
        ELSE IF ChallengeExpired(x.id, maxAge, t)
        THEN NoCall("Authenticate", "NotResponsible", "expired", conf.c)
        ELSE LET e == EvaluateFrom(conf.c, r, x.body, oks, 1, <<>>, <<>>, <<>>)
             IN  [op |-> "Authenticate", result |-> e.result, at |-> "loop",
                  cf |-> conf.c, body |-> x.body, seen |-> e.seen,
                  calls |-> e.calls, trace |-> e.err]

-----------------------------------------------------------------------------
(* The inputs the authenticator is driven with *)

IssuerA == <<"a">>

IssuerB == <<"b">>

IssuerInsecure == insecurePrefix \o <<"a">>

IssuerBadURL == <<"b", "%">>

NoHeaders == [Signature |-> <<>>, Kid |-> <<>>, Issuer |-> <<>>]

\* default header names, literal allow-list
AuthorityLiteral ==
    [Headers |-> NoHeaders,
     AllowedIssuers |-> <<IssuerA, IssuerInsecure>>,
     allowedIssuersRegex |-> <<>>]

\* its own issuer header, an empty kid override, literal allow-list
AuthorityOwnIssuer ==
    [Headers |-> [Signature |-> <<>>, Kid |-> <<"">>, Issuer |-> <<"x-iss-2">>],
     AllowedIssuers |-> <<IssuerB>>,
     allowedIssuersRegex |-> <<>>]

\* its own signature header; a literal entry beside a regex: entry, a
\* regexp: entry that does not compile and one that is anchored already
AuthorityMixed ==
    [Headers |-> [Signature |-> <<"x-sig-3">>, Kid |-> <<>>, Issuer |-> <<>>],
     AllowedIssuers |-> <<IssuerA, regexPrefix \o <<"b", ".", "*">>,
                          regexpPrefix \o <<"(">>, regexpPrefix \o <<"^", "b", "$">> >>,
     allowedIssuersRegex |-> <<>>]

AuthoritySet == {AuthorityLiteral, AuthorityOwnIssuer, AuthorityMixed}

RECURSIVE SeqsUpTo(_, _)
SeqsUpTo(S, n) ==
    IF n = 0 THEN {<<>>}
    ELSE LET shorter == SeqsUpTo(S, n - 1)
         IN  shorter \cup {Append(q, e) : q \in shorter, e \in S}

MaxAgeTexts == {"", "-1s", "0s", "1s", "1m", "max-30s", "bogus"}

\* the configurations AuthenticatorConfig decodes, and one it refuses
Configs ==
    {[valid |-> TRUE, Authorities |-> a, MaxChallengeAge |-> m, AllowInsecure |-> b] :
        a \in SeqsUpTo(AuthoritySet, MaxAuthorities), m \in MaxAgeTexts, b \in BOOLEAN}
    \cup {[valid |-> FALSE, Authorities |-> <<>>, MaxChallengeAge |-> "",
           AllowInsecure |-> FALSE]}

Sig == <<"s">>

Kid == <<"k">>

HeaderMap(sig, kid, iss, iss2, sig3) ==
    (defaultSignatureHeader :> sig) @@ (defaultKidHeader :> kid)
        @@ (defaultIssuerHeader :> iss) @@ ("x-iss-2" :> iss2) @@ ("x-sig-3" :> sig3)

HeaderMaps ==
    {HeaderMap(Sig, Kid, iss, iss2, sig3) :
        iss \in {<<>>, IssuerA, IssuerB, IssuerInsecure, IssuerBadURL},
        iss2 \in {<<>>, IssuerB}, sig3 \in {<<>>, Sig}}
    \cup {HeaderMap(<<>>, Kid, IssuerA, <<>>, <<>>), HeaderMap(Sig, <<>>, IssuerA, <<>>, <<>>)}

NowSet == {70}

ChallengeTimes == {0, 9, 10, 39, 69, 100}

Queries ==
    {<<[key |-> "x", val |-> <<"1">>]>>,
     <<[key |-> challenge, val |-> <<"junk">>]>>,
     <<[key |-> challenge, val |-> <<"junk">>], [key |-> challenge, val |-> <<"ulid", 69>>]>>}
    \cup {<<[key |-> "x", val |-> <<"1">>], [key |-> challenge, val |-> <<"ulid", t>>]>> :
            t \in ChallengeTimes}

Body == <<1, 2>>

Requests ==
    {[body |-> Body, query |-> <<>>, header |-> h] : h \in HeaderMaps}
    \cup {[body |-> <<>>, query |-> q, header |-> HeaderMap(Sig, Kid, IssuerA, <<>>, Sig)] :
            q \in Queries}
    \cup {[body |-> b, query |-> q, header |-> HeaderMap(Sig, Kid, IssuerA, <<>>, Sig)] :
            b \in {<<>>, Body}, q \in {<<>>, <<[key |-> challenge, val |-> <<"ulid", 0>>]>>}}

-----------------------------------------------------------------------------
(* The authenticator's operations *)

\* no call in progress: the arguments, locals and result of a call exist
\* only between the call and its return
NoConfig ==
    [valid |-> TRUE, Authorities |-> <<>>, MaxChallengeAge |-> "", AllowInsecure |-> FALSE]

NoRequest ==
    [body |-> <<>>, query |-> <<>>, header |-> HeaderMap(<<>>, <<>>, <<>>, <<>>, <<>>)]

Idle == outcome.op = "none"

\* NewAuthenticatorPre9421: maxChallengeAge has its zero value
AuthnInit ==
    /\ maxChallengeAge = 0
    /\ config = NoConfig
    /\ request = NoRequest
    /\ now = 0
    /\ verifies = {}
    /\ outcome = NoCall("none", "none", "none", NoConfig)

\* Authenticate(r, _, config, _) at time t, the verifier succeeding for oks
Authenticate(cfg, r, t, oks) ==
    LET conf == Config(cfg)
        maxAge == IF conf.store THEN conf.maxAge ELSE maxChallengeAge
    IN  /\ maxChallengeAge' = maxAge
        /\ config' = cfg
        /\ request' = r
        /\ now' = t
        /\ verifies' = oks
        /\ outcome' = AuthenticateResult(conf, maxAge, r, t, oks)

\* Validate(config); enabled is AuthenticatorIsEnabled(GetID())
Validate(cfg, enabled) ==
    LET conf == Config(cfg)
    IN  /\ config' = cfg
        /\ maxChallengeAge' = IF enabled /\ conf.store THEN conf.maxAge
                              ELSE maxChallengeAge
        /\ outcome' = IF enabled THEN NoCall("Validate", conf.err, "config", conf.c)
                      ELSE NoCall("Validate", "NotEnabled", "enabled", cfg)
        /\ UNCHANGED <<request, now, verifies>>

\* the call returns to the pipeline: its frame is released, the instance
\* keeps its field
Return ==
    /\ ~Idle
    /\ config' = NoConfig
    /\ request' = NoRequest
    /\ now' = 0
    /\ verifies' = {}
    /\ outcome' = NoCall("none", "none", "none", NoConfig)
    /\ UNCHANGED maxChallengeAge

AuthnStep ==
    \/ /\ Idle
       /\ \E cfg \in Configs, r \in Requests, t \in NowSet :
            \E oks \in SUBSET (1..Len(cfg.Authorities)) : Authenticate(cfg, r, t, oks)
    \/ /\ Idle
       /\ \E cfg \in Configs, enabled \in BOOLEAN : Validate(cfg, enabled)
    \/ Return


-----------------------------------------------------------------------------
(* Calls running concurrently on one authenticator instance.  The pipeline  *)
(* serves each request on its own goroutine with the one registered         *)
(* authenticator, and nothing orders the accesses to its field              *)
(* maxChallengeAge: a call is a sequence of steps, one for each access to   *)
(* the field, and the steps of different calls interleave.  A read of the   *)
(* field yields the value the latest write left.  reads records the values  *)
(* a call has read from the field.                                          *)

CallerIds == {1, 2}

NoExtract == [body |-> <<>>, id |-> <<>>, invalid |-> FALSE]

NoCaller ==
    [pc |-> "idle", op |-> "none", cfg |-> NoConfig, r |-> NoRequest, cf |-> NoConfig,
     x |-> NoExtract, reads |-> <<>>, at |-> "none", result |-> "none"]

CallersInit == callers = [t \in CallerIds |-> NoCaller]

Finished(t, at, result) ==
    callers' = [callers EXCEPT ![t].pc = "done", ![t].at = at, ![t].result = result]

\* line 79
CallAuthenticate(t, cfg, r) ==
    /\ callers' = [callers EXCEPT ![t] = [NoCaller EXCEPT !.pc = "Config",
                                                         !.op = "Authenticate",
                                                         !.cfg = cfg, !.r = r]]
    /\ UNCHANGED maxChallengeAge

\* lines 266-269
CallValidate(t, cfg, enabled) ==
    /\ callers' = [callers EXCEPT ![t] =
                     [NoCaller EXCEPT !.pc = IF enabled THEN "Config" ELSE "done",
                                      !.op = "Validate", !.cfg = cfg,
                                      !.at = IF enabled THEN "none" ELSE "enabled",
                                      !.result = IF enabled THEN "none" ELSE "NotEnabled"]]
    /\ UNCHANGED maxChallengeAge

\* lines 84-91 and 271-272: Config, with its write of line 293
RunConfig(t) ==
    /\ callers[t].pc = "Config"
    /\ LET conf == Config(callers[t].cfg)
       IN  /\ maxChallengeAge' = IF conf.store THEN conf.maxAge ELSE maxChallengeAge
           /\ IF conf.err # "nil" \/ callers[t].op = "Validate"
              THEN Finished(t, "config", conf.err)
              ELSE IF Len(conf.c.Authorities) = 0
              THEN Finished(t, "no-authorities", "NotResponsible")
              ELSE callers' = [callers EXCEPT ![t].pc = "switch", ![t].cf = conf.c]

\* lines 99-128, with the read of line 108
RunSwitch(t) ==
    /\ callers[t].pc = "switch"
    /\ LET r == callers[t].r
           x == ExtractBody(r, maxChallengeAge)
           reads == IF ~hasRequestBody(r) /\ hasQueryParams(r)
                    THEN Append(callers[t].reads, maxChallengeAge)
                    ELSE callers[t].reads
       IN  callers' = [callers EXCEPT
                         ![t].x = x,
                         ![t].reads = reads,
                         ![t].pc = IF x.invalid THEN "done"
                                   ELSE IF x.id = <<>> THEN "loop" ELSE "age",
                         ![t].at = IF x.invalid THEN "invalid" ELSE "none",
                         ![t].result = IF x.invalid THEN "NotResponsible" ELSE "none"]
    /\ UNCHANGED maxChallengeAge

\* lines 130-134: the left operand of &&, x.maxChallengeAge > 0
RunAgeTest(t) ==
    /\ callers[t].pc = "age"
    /\ callers' = [callers EXCEPT
                     ![t].reads = Append(callers[t].reads, maxChallengeAge),
                     ![t].pc = IF maxChallengeAge > 0 THEN "sum" ELSE "loop"]
    /\ UNCHANGED maxChallengeAge

\* lines 134-136: the right operand, now.Sub(idTime) > x.maxChallengeAge+jitter
RunAgeBound(t) ==
    /\ callers[t].pc = "sum"
    /\ LET expired == TimeSub(CHOOSE u \in NowSet : TRUE, callers[t].x.id[1])
                          > DurAdd(maxChallengeAge, jitter)
       IN  callers' = [callers EXCEPT
                         ![t].reads = Append(callers[t].reads, maxChallengeAge),
                         ![t].pc = IF expired THEN "done" ELSE "loop",
                         ![t].at = IF expired THEN "expired" ELSE "none",
                         ![t].result = IF expired THEN "NotResponsible" ELSE "none"]
    /\ UNCHANGED maxChallengeAge

\* lines 139-185, the verifier succeeding for the first authority
RunLoop(t) ==
    /\ callers[t].pc = "loop"
    /\ Finished(t, "loop",
                EvaluateFrom(callers[t].cf, callers[t].r, callers[t].x.body, {1}, 1,
                             <<>>, <<>>, <<>>).result)
    /\ UNCHANGED maxChallengeAge

CallerReturn(t) ==
    /\ callers[t].pc = "done"
    /\ callers' = [callers EXCEPT ![t] = NoCaller]
    /\ UNCHANGED maxChallengeAge

\* one authority; max_challenge_age absent (30s), 0s, 1s, and one that does
\* not parse
CallerConfigs ==
    {[valid |-> TRUE, Authorities |-> <<AuthorityLiteral>>, MaxChallengeAge |-> m,
      AllowInsecure |-> FALSE] : m \in {"", "0s", "1s", "bogus"}}

\* a request with a body, and query requests: without a challenge, with one
\* that does not parse, with one made 60 seconds before the call
CallerRequests ==
    {[body |-> Body, query |-> <<>>, header |-> HeaderMap(Sig, Kid, IssuerA, <<>>, <<>>)]}
    \cup {[body |-> <<>>, query |-> q, header |-> HeaderMap(Sig, Kid, IssuerA, <<>>, <<>>)] :
            q \in {<<[key |-> "x", val |-> <<"1">>]>>,
                   <<[key |-> challenge, val |-> <<"junk">>]>>,
                   <<[key |-> challenge, val |-> <<"ulid", 10>>]>>}}

CallerStep ==
    \E t \in CallerIds :
        \/ /\ callers[t].pc = "idle"
           /\ \E cfg \in CallerConfigs, r \in CallerRequests : CallAuthenticate(t, cfg, r)
        \/ /\ callers[t].pc = "idle"
           /\ \E cfg \in CallerConfigs, enabled \in BOOLEAN : CallValidate(t, cfg, enabled)
        \/ RunConfig(t)
        \/ RunSwitch(t)
        \/ RunAgeTest(t)
        \/ RunAgeBound(t)
        \/ RunLoop(t)
        \/ CallerReturn(t)

-----------------------------------------------------------------------------
(* AuthorizerRemoteJSON: configuration and templates *)

\* Go's signed multiplication: the product modulo 2^DurBits
DurMul(a, b) == ((a * b - DurMin) % (2 ^ DurBits)) + DurMin

\* time.ParseDuration on the retry texts, in Duration units
RetryDurationValue(s) ==
    CASE s = "1ms" -> Millisecond
      [] s = "3ms" -> 3 * Millisecond
      [] OTHER -> DurMax + 1

ParseRetryDuration(s) ==
    LET v == RetryDurationValue(s)
    IN  IF v > DurMax THEN [ok |-> FALSE, d |-> 0] ELSE [ok |-> TRUE, d |-> v]

\* the result of AuthorizerRemoteJSON.Config: err, the configuration and the
\* HTTP client it installs (store = FALSE: a.client is left alone).  The
\* configurations are those AuthorizerConfig produces, whose retry block is set.
AuthorizerConfig(cfg) ==
    LET duration == ParseRetryDuration(cfg.Retry.Timeout)
        maxWait == ParseRetryDuration(cfg.Retry.MaxWait)
        none == [maxRetryWait |-> 0, connectionTimeout |-> 0]
    IN  IF ~cfg.valid THEN [err |-> "Misconfigured", store |-> FALSE, client |-> none]
        ELSE IF ~duration.ok THEN [err |-> "InvalidDuration", store |-> FALSE, client |-> none]
        ELSE IF ~maxWait.ok THEN [err |-> "InvalidDuration", store |-> FALSE, client |-> none]
        ELSE [err |-> "nil", store |-> TRUE,
              client |-> [maxRetryWait |-> maxWait.d,
                          connectionTimeout |-> DurMul(Millisecond, duration.d)]]

\* PayloadTemplateID: the SHA-256 of the payload text, one id per text
PayloadTemplateID(c) == <<"sha256", c.Payload>>

\* the id of a header template: rule id and header name
HeaderTemplateID(rule, hdr) == <<rule, hdr>>

\* the template texts the configurations use
TmplSubjectJSON == "{\"subject\":\"{{ .Subject }}\"}"

TmplSubject == "{{ .Subject }}"

TmplEmpty == "{{ if false }}x{{ end }}"

TmplBadParse == "{{"

TmplBadExec == "{{ .Missing }}"

\* text/template Parse: whether the text parses
TemplateParses(text) == text # TmplBadParse

\* text/template Execute against the session: the output is a sequence of
\* pieces, the empty sequence being the empty output
TemplateExecute(text, session) ==
    CASE text = TmplSubjectJSON ->
             [ok |-> TRUE, out |-> <<"{\"subject\":\"", session.Subject, "\"}">>]
      [] text = TmplSubject ->
             [ok |-> TRUE, out |-> IF session.Subject = "" THEN <<>> ELSE <<session.Subject>>]
      [] text = TmplEmpty -> [ok |-> TRUE, out |-> <<>>]
      [] OTHER -> [ok |-> FALSE, out |-> <<>>]

\* the subjects that contain a double quote
SubjectsWithQuote == {"al\"ice"}

\* IsJSON for an Unmarshal that accepts every text
IsJSON_AcceptingAnyText(out) == TRUE

\* json.Unmarshal into a RawMessage: whether the rendered text is one JSON value
IsJSON(out) ==
    /\ Len(out) = 3
    /\ out[1] = "{\"subject\":\""
    /\ out[3] = "\"}"
    /\ out[2] \notin SubjectsWithQuote

-----------------------------------------------------------------------------
(* signPayload *)

\* http.Header.Add and http.Header.Set on a header (name -> values)
HeaderAdd(h, name, value) ==
    IF name \in DOMAIN h THEN [h EXCEPT ![name] = Append(@, value)]
    ELSE h @@ (name :> <<value>>)

HeaderSet(h, name, value) ==
    IF name \in DOMAIN h THEN [h EXCEPT ![name] = <<value>>]
    ELSE h @@ (name :> <<value>>)

\* sign: the hex HMAC-SHA256 of msg under key
sign(msg, key) == <<"hmac-sha256", key, msg>>

\* errors.Wrap of github.com/pkg/errors: nil when err is nil
ErrorsWrap(err, message) == IF err = "nil" THEN "nil" ELSE message

\* urlx.Parse of the JWKS URL
UrlxParseOK(url) == url # "::bad"

\* fmt.Sprintf("%s-Kid", header) for the signature header names in use
KidHeader(name) ==
    CASE name = "X-Jwks-Signature" -> "X-Jwks-Signature-Kid"
      [] name = "X-Sig" -> "X-Sig-Kid"
      [] OTHER -> "-Kid"

\* signPayload: the error and the outbound header after it.  signer is the
\* outcome of credSigner.SignPayload.
signPayload(signer, header, body, hdrName, sharedKey, jwksUrl, issuer) ==
    IF (sharedKey # "") = (jwksUrl # "")
    THEN [err |-> ErrorsWrap("nil",
                     "exactly one of hmac.shared_key or hmac.jwks_url must be specified"),
          header |-> header]
    ELSE IF sharedKey # ""
    THEN [err |-> "nil",
          header |-> HeaderAdd(header,
                               IF hdrName = "" THEN "X-Request-Signature" ELSE hdrName,
                               sign(body, sharedKey))]
    ELSE IF ~UrlxParseOK(jwksUrl)
    THEN [err |-> "InvalidJWKSURL", header |-> header]
    ELSE IF ~signer.ok
    THEN [err |-> "SignerFailed", header |-> header]
    ELSE LET name == IF hdrName = "" THEN "X-Jwks-Signature" ELSE hdrName
             h1 == HeaderAdd(header, name, signer.sig)
             h2 == HeaderAdd(h1, KidHeader(name), signer.keyId)
         IN  [err |-> "nil",
              header |-> IF issuer # "" THEN HeaderAdd(h2, "X-Jwks-Issuer", <<issuer>>) ELSE h2]

-----------------------------------------------------------------------------
(* AuthorizerRemoteJSON.Authorize *)

StatusOK == 200

StatusForbidden == 403

\* the outbound request's header before signing: Content-Type and the
\* inbound X-Correlation-ID, X-Session-Entropy and Authorization when present
BaseHeader(r) ==
    LET h0 == "Content-Type" :> << <<"application/json">> >>
        h1 == IF Len(HeaderGet(r.header, "x-correlation-id")) > 0
              THEN HeaderAdd(h0, "X-Correlation-ID", HeaderGet(r.header, "x-correlation-id"))
              ELSE h0
        h2 == IF Len(HeaderGet(r.header, "X-Session-Entropy")) > 0
              THEN HeaderAdd(h1, "X-Session-Entropy", HeaderGet(r.header, "X-Session-Entropy"))
              ELSE h1
    IN  IF HeaderGet(r.header, "Authorization") # <<>>
        THEN HeaderAdd(h2, "Authorization", HeaderGet(r.header, "Authorization"))
        ELSE h2

\* the template to use for id: the cached one, or text when none is cached
LookupOrText(cache, id, text) == IF id \in DOMAIN cache THEN cache[id] ELSE text

\* the loop over c.Headers from entry k on (in the order the map iteration
\* takes): the error, the template cache and the outbound header after it
RECURSIVE RenderHeaders(_, _, _, _, _, _)
RenderHeaders(headers, k, rule, session, cache, header) ==
    IF k > Len(headers) THEN [err |-> "nil", cache |-> cache, header |-> header]
    ELSE
      LET hdr == headers[k].name
          id == HeaderTemplateID(rule, hdr)
          cached == id \in DOMAIN cache
          text == LookupOrText(cache, id, headers[k].template)
          cache1 == IF cached THEN cache ELSE cache @@ (id :> text)
          value == TemplateExecute(text, session)
      IN  IF ~cached /\ ~TemplateParses(text)
          THEN [err |-> "HeaderTemplateParse", cache |-> cache, header |-> header]
          ELSE IF ~value.ok
          THEN [err |-> "HeaderTemplateExecute", cache |-> cache1, header |-> header]
          ELSE RenderHeaders(headers, k + 1, rule, session, cache1,
                             IF value.out = <<>> THEN header
                             ELSE HeaderSet(header, hdr, value.out))

\* StatusError that takes every status other than 403 for success
StatusError_OnlyForbidden(status) ==
    IF status = 403 THEN [err |-> "Forbidden", status |-> status]
    ELSE [err |-> "nil", status |-> status]

\* the error Authorize returns for the response's status code
StatusError(status) ==
    IF status = StatusForbidden THEN [err |-> "Forbidden", status |-> status]
    ELSE IF status # StatusOK THEN [err |-> "UnexpectedStatus", status |-> status]
    ELSE [err |-> "nil", status |-> status]

\* ForwardHeaders that leaves out the headers the response lacks
RECURSIVE ForwardHeaders_SkippingAbsent(_, _, _)
ForwardHeaders_SkippingAbsent(names, k, res) ==
    IF k > Len(names) THEN <<>>
    ELSE (IF names[k] \in DOMAIN res.header
          THEN <<[name |-> names[k], value |-> HeaderGet(res.header, names[k])]>>
          ELSE <<>>)
             \o ForwardHeaders_SkippingAbsent(names, k + 1, res)

\* the loop over c.ForwardResponseHeadersToUpstream from entry k on: the
\* session.SetHeader calls it makes, in order
RECURSIVE ForwardHeaders(_, _, _)
ForwardHeaders(names, k, res) ==
    IF k > Len(names) THEN <<>>
    ELSE <<[name |-> names[k], value |-> HeaderGet(res.header, names[k])]>>
             \o ForwardHeaders(names, k + 1, res)

Failed(err, cache, header, sent) ==
    [result |-> [err |-> err, status |-> 0], cache |-> cache, header |-> header,
     body |-> <<>>, setHeader |-> <<>>, sent |-> sent]

\* Authorize after its Config succeeded with configuration c: what it returns,
\* the template cache, the outbound request, the session.SetHeader calls, and
\* whether the HTTP call was made.  env holds the signer's and the remote's behaviour.
AuthorizeResult(c, r, session, rule, cache, env) ==
    LET templateID == PayloadTemplateID(c)
        cached == templateID \in DOMAIN cache
        text == LookupOrText(cache, templateID, c.Payload)
        cache1 == IF cached THEN cache ELSE cache @@ (templateID :> text)
        body == TemplateExecute(text, session)
        base == BaseHeader(r)
        signing == c.SignedPayload # <<>> /\ Len(body.out) > 0
        signed == IF signing
                  THEN signPayload(env.signer, base, body.out, c.SignedPayload[1].Header,
                                   c.SignedPayload[1].SharedKey, c.SignedPayload[1].JWKSURL,
                                   c.SignedPayload[1].Issuer)
                  ELSE [err |-> "nil", header |-> base]
        rendered == RenderHeaders(c.Headers, 1, rule, session, cache1, signed.header)
        status == StatusError(env.response.status)
    IN  IF ~cached /\ ~TemplateParses(text)
        THEN Failed("TemplateParse", cache, <<>>, FALSE)
        ELSE IF ~body.ok THEN Failed("TemplateExecute", cache1, <<>>, FALSE)
        ELSE IF ~IsJSON(body.out) THEN Failed("NotJSON", cache1, <<>>, FALSE)
        ELSE IF signed.err # "nil" THEN Failed(signed.err, cache1, signed.header, FALSE)
        ELSE IF rendered.err # "nil"
        THEN Failed(rendered.err, rendered.cache, rendered.header, FALSE)
        ELSE [result |-> IF env.response.err THEN [err |-> "Transport", status |-> 0]
                         ELSE status,
              cache |-> rendered.cache,
              header |-> rendered.header,
              body |-> body.out,
              setHeader |-> IF ~env.response.err /\ status.err = "nil"
                            THEN ForwardHeaders(c.ForwardResponseHeadersToUpstream, 1,
                                                env.response)
                            ELSE <<>>,
              sent |-> TRUE]

-----------------------------------------------------------------------------
(* The inputs the authorizer is driven with *)

RetryFast == [Timeout |-> "1ms", MaxWait |-> "3ms"]

BaseConfig ==
    [valid |-> TRUE, Headers |-> <<>>, Payload |-> TmplSubjectJSON,
     ForwardResponseHeadersToUpstream |-> <<"X-User">>, Retry |-> RetryFast,
     SignedPayload |-> <<>>]

SignedPayloadSet ==
    {[Header |-> h, SharedKey |-> k, JWKSURL |-> u, Issuer |-> i] :
        h \in {"", "X-Sig"}, k \in {"", "secret"}, u \in {"", "https://jwks"}, i \in {""}}
    \cup {[Header |-> "", SharedKey |-> "", JWKSURL |-> u, Issuer |-> "https://issuer"] :
            u \in {"https://jwks", "::bad"}}
    \cup {[Header |-> "X-Role", SharedKey |-> "secret", JWKSURL |-> "", Issuer |-> ""]}

HeaderLists ==
    {<<[name |-> "X-Role", template |-> t]>> : t \in {TmplSubject, TmplEmpty, TmplBadParse}}

AuthorizerConfigs ==
    {[BaseConfig EXCEPT !.Payload = p] :
        p \in {TmplSubjectJSON, TmplSubject, TmplEmpty, TmplBadParse, TmplBadExec}}
    \cup {[BaseConfig EXCEPT !.Headers = h] : h \in HeaderLists}
    \cup {[BaseConfig EXCEPT !.ForwardResponseHeadersToUpstream = f] :
            f \in {<<>>, <<"X-User", "X-Missing">>, <<"X-Missing", "X-User", "X-Trace">>}}
    \cup {[BaseConfig EXCEPT !.Retry = [Timeout |-> t, MaxWait |-> w]] :
            t \in {"3ms", "bogus"}, w \in {"1ms", "bogus"}}
    \cup {[BaseConfig EXCEPT !.SignedPayload = <<s>>] : s \in SignedPayloadSet}
    \cup {[BaseConfig EXCEPT !.SignedPayload = <<s>>,
                             !.Headers = <<[name |-> "X-Role", template |-> TmplSubject]>>] :
            s \in {[Header |-> "X-Role", SharedKey |-> "secret", JWKSURL |-> "", Issuer |-> ""],
                   [Header |-> "", SharedKey |-> "secret", JWKSURL |-> "https://jwks",
                    Issuer |-> ""]}}
    \cup {[BaseConfig EXCEPT !.valid = FALSE]}

InboundHeaders ==
    {<<>>,
     ("x-correlation-id" :> <<"corr-1">>) @@ ("X-Session-Entropy" :> <<"entropy">>)
         @@ ("Authorization" :> <<"Bearer t">>)}

Sessions == {[Subject |-> s] : s \in {"alice", "al\"ice"}}

Rules == {"rule-1"}

Signers == {[ok |-> TRUE, sig |-> <<"jws">>, keyId |-> <<"kid-1">>],
            [ok |-> FALSE, sig |-> <<>>, keyId |-> <<>>]}

Statuses == {200, 201, 403, 500}

Responses ==
    {[err |-> FALSE, status |-> s, header |-> h] :
        s \in Statuses,
        h \in {<<>>, "X-User" :> <<"bob">>,
               ("X-User" :> <<"bob">>) @@ ("X-Trace" :> <<"t-1">>)}}
    \cup {[err |-> TRUE, status |-> 0, header |-> <<>>]}

Environments == {[signer |-> s, response |-> p] : s \in Signers, p \in Responses}

-----------------------------------------------------------------------------
(* The authorizer's operations *)

NoAuthorizerCall ==
    [op |-> "none", config |-> BaseConfig, header |-> <<>>,
     session |-> [Subject |-> ""], rule |-> "",
     env |-> [signer |-> [ok |-> FALSE, sig |-> <<>>, keyId |-> <<>>],
              response |-> [err |-> TRUE, status |-> 0, header |-> <<>>]]]

NoAuthorizerOutcome == Failed("none", <<>>, <<>>, FALSE)

AuthorizerIdle == azCall.op = "none"

\* Authorize(r, session, config, rl) with the signer and the remote behaving
\* as env says
Authorize(cfg, r, session, rule, env) ==
    LET conf == AuthorizerConfig(cfg)
        res == IF conf.err # "nil" THEN Failed(conf.err, templates, <<>>, FALSE)
               ELSE AuthorizeResult(cfg, r, session, rule, templates, env)
    IN  /\ azCall' = [op |-> "Authorize", config |-> cfg, header |-> r.header,
                      session |-> session, rule |-> rule, env |-> env]
        /\ client' = IF conf.store THEN conf.client ELSE client
        /\ templates' = res.cache
        /\ azOutcome' = res

\* Validate(config); enabled is AuthorizerIsEnabled(GetID())
AuthorizerValidate(cfg, enabled) ==
    LET conf == AuthorizerConfig(cfg)
    IN  /\ azCall' = [NoAuthorizerCall EXCEPT !.op = "Validate", !.config = cfg]
        /\ client' = IF enabled /\ conf.store THEN conf.client ELSE client
        /\ azOutcome' = [NoAuthorizerOutcome EXCEPT
                           !.result.err = IF enabled THEN conf.err ELSE "NotEnabled",
                           !.cache = templates]
        /\ UNCHANGED templates

\* the call returns: its frame is released, the instance keeps its template
\* set and its client
AuthorizerReturn ==
    /\ ~AuthorizerIdle
    /\ azCall' = NoAuthorizerCall
    /\ azOutcome' = NoAuthorizerOutcome
    /\ UNCHANGED <<templates, client>>

AuthorizerNext ==
    \/ /\ AuthorizerIdle
       /\ \E cfg \in AuthorizerConfigs, h \in InboundHeaders, session \in Sessions,
             rule \in Rules, env \in Environments :
              Authorize(cfg, [header |-> h], session, rule, env)
    \/ /\ AuthorizerIdle
       /\ \E cfg \in AuthorizerConfigs, enabled \in BOOLEAN : AuthorizerValidate(cfg, enabled)
    \/ AuthorizerReturn

-----------------------------------------------------------------------------
(* Properties of the authenticator *)

Authenticated == outcome.op = "Authenticate" /\ outcome.result = "nil"

\* the call reached the loop over the authorities
InLoop == outcome.op = "Authenticate" /\ outcome.at = "loop"

AuthorityIndexes == 1..Len(outcome.cf.Authorities)

HeadersOf(i) == ReadHeaders(outcome.cf.Authorities[i], request)

AllHeadersPresent(i) ==
    /\ Len(HeadersOf(i).signature) > 0
    /\ Len(HeadersOf(i).kid) > 0
    /\ Len(HeadersOf(i).issuer) > 0

VerifierCalledFor(i) == \E k \in 1..Len(outcome.calls) : outcome.calls[k].authority = i

VerifierSucceededFor(i) ==
    \E k \in 1..Len(outcome.calls) :
        outcome.calls[k].authority = i /\ outcome.calls[k].ok

\* the request passes the configuration, body and challenge pre-checks, said
\* of the inputs alone
ConfigAccepted == config.valid /\ (config.MaxChallengeAge = "" \/ ParseDuration(config.MaxChallengeAge).ok)

ConfiguredMaxAge ==
    IF config.MaxChallengeAge = "" THEN defaultMaxAge
    ELSE ParseDuration(config.MaxChallengeAge).d

QueryMode == Len(request.body) = 0 /\ Len(request.query) > 0

ChallengePresent == \E k \in 1..Len(request.query) : request.query[k].key = challenge

ChallengeParses == ChallengePresent /\ UlidParse(QueryGet(request.query, challenge)).ok

ChallengeTime == UlidParse(QueryGet(request.query, challenge)).time

PreChecksPassed ==
    /\ ConfigAccepted
    /\ Len(config.Authorities) > 0
    /\ \/ Len(request.body) > 0
       \/ /\ QueryMode
          /\ ConfiguredMaxAge > 0 => ChallengeParses
          /\ (ConfiguredMaxAge > 0 /\ ChallengeParses) =>
                 ~(TimeSub(now, ChallengeTime) > DurAdd(ConfiguredMaxAge, jitter))

\* C1: Authenticate returns nil only if for some configured authority the
\* signature, key-id and issuer headers were all non-empty, the issuer passed
\* the allowed-issuer check and the verifier returned success for that
\* authority; a call that passes the pre-checks and in which no authority
\* verifies returns Unauthorized.
C1_NilOnlyWhenVerified ==
    outcome.op = "Authenticate" =>
        /\ outcome.result = "nil" =>
               \E i \in AuthorityIndexes :
                   /\ AllHeadersPresent(i)
                   /\ allowedIssuer(outcome.cf, HeadersOf(i).issuer)
                   /\ i \in verifies
                   /\ VerifierSucceededFor(i)
        /\ (PreChecksPassed /\ ~\E i \in AuthorityIndexes : VerifierSucceededFor(i)) =>
               outcome.result = "Unauthorized"

\* C1 witness: a call returned nil after the verifier failed for the first
\* authority and succeeded for the second
C1_Witness == Authenticated /\ Len(outcome.calls) = 2

\* a call that passed the pre-checks called the verifier twice and returned
\* Unauthorized
C1_WitnessUnauthorized ==
    /\ outcome.op = "Authenticate"
    /\ PreChecksPassed
    /\ outcome.result = "Unauthorized"
    /\ Len(outcome.calls) = 2

\* the allow-list of one authority as the specification reads it: a literal
\* entry equal to the issuer, or a prefixed entry whose anchored expression
\* compiled and matches the issuer
EntryMatches(entry, issuer) ==
    IF HasPrefix(entry, regexPrefix) \/ HasPrefix(entry, regexpPrefix)
    THEN \E k \in 1..Len(CompileEntry(entry)) : MatchString(CompileEntry(entry)[k], issuer)
    ELSE entry = issuer

OwnListMatches(i, issuer) ==
    \E k \in 1..Len(outcome.cf.Authorities[i].AllowedIssuers) :
        EntryMatches(outcome.cf.Authorities[i].AllowedIssuers[k], issuer)

\* C2: while an authority is evaluated, the issuer read from its issuer
\* header is accepted (and the verifier called for it) only if it matches an
\* entry of that same authority's allow-list.
C2_IssuerMatchesOwnList ==
    InLoop =>
        \A i \in AuthorityIndexes :
            VerifierCalledFor(i) => OwnListMatches(i, HeadersOf(i).issuer)

\* C4: the authorities are evaluated in configured order, an authority with
\* one of its three headers absent is skipped without a verifier call, and
\* once the verifier succeeds for an authority the call returns nil and the
\* verifier is called for no later authority.
C4_FirstVerifyingAuthorityWins ==
    InLoop =>
        /\ \A k \in 1..Len(outcome.seen) : outcome.seen[k].authority = k
        /\ \A k, m \in 1..Len(outcome.calls) :
               k < m => outcome.calls[k].authority < outcome.calls[m].authority
        /\ \A i \in AuthorityIndexes : ~AllHeadersPresent(i) => ~VerifierCalledFor(i)
        /\ \A i \in AuthorityIndexes :
               VerifierSucceededFor(i) =>
                   /\ outcome.result = "nil"
                   /\ \A j \in AuthorityIndexes : j > i => ~VerifierCalledFor(j)
                   /\ Len(outcome.seen) = i

\* C4 witness: the verifier succeeded for the first of two authorities while
\* the second had all its headers and would have verified too
C4_Witness ==
    /\ InLoop
    /\ Len(outcome.cf.Authorities) = 2
    /\ VerifierSucceededFor(1)
    /\ AllHeadersPresent(2)
    /\ 2 \in verifies
    /\ outcome.result = "nil"


\* C5 as amended: under an accepted configuration with a positive maximum
\* challenge age whose sum with the 30s jitter stays below the largest
\* Duration, a query-parameter request whose challenge embeds a timestamp
\* with now - timestamp > maxChallengeAge + 30s is rejected with
\* NotResponsible and the verifier is not called; whenever the sum does not
\* overflow, a challenge with now - timestamp <= maxChallengeAge + 30s is not
\* rejected by the freshness check.
C5_ExpiredChallengeNotResponsible ==
    (outcome.op = "Authenticate" /\ ConfigAccepted /\ QueryMode /\ ChallengeParses) =>
        /\ ( /\ ConfiguredMaxAge > 0
             /\ ConfiguredMaxAge + jitter < DurMax
             /\ now - ChallengeTime > ConfiguredMaxAge + jitter ) =>
               (outcome.result = "NotResponsible" /\ outcome.calls = <<>>)
        /\ ( /\ ConfiguredMaxAge + jitter <= DurMax
             /\ now - ChallengeTime <= ConfiguredMaxAge + jitter ) =>
               outcome.at # "expired"

\* C5 witness: a challenge one second too old was rejected by the freshness
\* check under a configuration with at least one authority
C5_Witness ==
    /\ outcome.op = "Authenticate"
    /\ ConfigAccepted /\ QueryMode /\ ChallengeParses
    /\ Len(config.Authorities) > 0
    /\ ConfiguredMaxAge > 0
    /\ now - ChallengeTime = ConfiguredMaxAge + jitter + 1
    /\ outcome.at = "expired"

\* C5 as stated: for every maximum challenge age, a query-parameter request
\* whose challenge embeds a timestamp with now - timestamp > maxChallengeAge
\* + 30s is rejected with NotResponsible and the verifier is not called, and
\* a younger challenge is not rejected by the freshness check.
C5_Original ==
    (outcome.op = "Authenticate" /\ ConfigAccepted /\ QueryMode /\ ChallengeParses) =>
        /\ now - ChallengeTime > ConfiguredMaxAge + jitter =>
               (outcome.result = "NotResponsible" /\ outcome.calls = <<>>)
        /\ now - ChallengeTime <= ConfiguredMaxAge + jitter => outcome.at # "expired"

\* C7: an issuer equal to a literal entry of the evaluated authority's
\* allow-list is allowed, also when the list holds prefixed entries that
\* compiled; a prefixed entry allows an issuer when its anchored expression
\* matches the issuer.  (An issuer refused for its http:// scheme is left out.)
C7_LiteralEntryAllowed ==
    InLoop =>
        \A k \in 1..Len(outcome.seen) :
            LET i == outcome.seen[k].authority
                issuer == HeadersOf(i).issuer
            IN  ( /\ AllHeadersPresent(i)
                  /\ ~(HasPrefix(issuer, insecurePrefix) /\ ~outcome.cf.AllowInsecure)
                  /\ OwnListMatches(i, issuer) ) =>
                    outcome.seen[k].step # "issuer-rejected"

\* C8: when no authority verifies, the error carried by Unauthorized holds
\* the cause of every attempted authority: its verification error, and its
\* URL-parsing error when the key-discovery URL did not parse.
C8_ErrorsAccumulate ==
    (InLoop /\ outcome.result = "Unauthorized") =>
        \A k \in 1..Len(outcome.calls) :
            /\ Contains(outcome.trace,
                        [authority |-> outcome.calls[k].authority, cause |-> "verify"])
            /\ ~outcome.calls[k].keyURLs =>
                   Contains(outcome.trace,
                            [authority |-> outcome.calls[k].authority, cause |-> "url"])

\* the cases of C10, said of the inputs
NeitherBodyNorQuery == Len(request.body) = 0 /\ Len(request.query) = 0

ChallengeRequiredAndUnusable ==
    QueryMode /\ ConfiguredMaxAge > 0 /\ ~ChallengeParses

\* C10 as amended: under a configuration that Config accepts, Authenticate
\* returns NotResponsible without calling the verifier when no authorities
\* are configured, when the request has neither a non-empty body nor a
\* non-empty query string, and when a query-parameter request under a positive
\* maximum challenge age has no challenge parameter or one that does not
\* parse; under a configuration that Config refuses the verifier is not
\* called either.
C10_NotResponsibleWithoutVerifier ==
    outcome.op = "Authenticate" =>
        /\ ( /\ ConfigAccepted
             /\ \/ Len(config.Authorities) = 0
                \/ NeitherBodyNorQuery
                \/ ChallengeRequiredAndUnusable ) =>
               (outcome.result = "NotResponsible" /\ outcome.calls = <<>>)
        /\ ~ConfigAccepted => outcome.calls = <<>>

\* C10 witness: a query-parameter request with all headers present and an
\* unparsable challenge was turned away although an authority would verify
C10_Witness ==
    /\ outcome.op = "Authenticate"
    /\ ConfigAccepted
    /\ ChallengeRequiredAndUnusable
    /\ ChallengePresent
    /\ Len(config.Authorities) > 0
    /\ AllHeadersPresent(1)
    /\ 1 \in verifies
    /\ outcome.result = "NotResponsible"

\* C10 as stated: in each of the three cases Authenticate returns
\* NotResponsible without calling the verifier, for every configuration that
\* decodes, whatever its max_challenge_age text.
C10_Original ==
    ( /\ outcome.op = "Authenticate"
      /\ config.valid
      /\ \/ Len(config.Authorities) = 0
         \/ NeitherBodyNorQuery
         \/ ChallengeRequiredAndUnusable ) =>
        (outcome.result = "NotResponsible" /\ outcome.calls = <<>>)

\* an allow-list entry as the configuration documents it: the prefix marks
\* an expression, the expression is the text after the prefix, and it is
\* used anchored at both ends
Prefixed(entry) == HasPrefix(entry, regexPrefix) \/ HasPrefix(entry, regexpPrefix)

Expression(entry) ==
    IF HasPrefix(entry, regexPrefix)
    THEN SubSeq(entry, Len(regexPrefix) + 1, Len(entry))
    ELSE SubSeq(entry, Len(regexpPrefix) + 1, Len(entry))

Anchored(e) ==
    (IF Len(e) > 0 /\ e[1] = "^" THEN <<>> ELSE <<"^">>)
        \o e \o (IF Len(e) > 0 /\ e[Len(e)] = "$" THEN <<>> ELSE <<"$">>)

Compilable(entry) == RegexCompile(Anchored(Expression(entry))).ok

ExpectedExpressions(entries) ==
    LET kept == SelectSeq(entries, LAMBDA en : Prefixed(en) /\ Compilable(en))
    IN  [k \in 1..Len(kept) |-> Anchored(Expression(kept[k]))]

HasFailingEntry(authority) ==
    \E k \in 1..Len(authority.AllowedIssuers) :
        /\ Prefixed(authority.AllowedIssuers[k])
        /\ ~Compilable(authority.AllowedIssuers[k])

\* Config ran in the call of the state (Validate runs it only when the
\* authenticator is enabled)
ConfigRan == outcome.op # "none" /\ outcome.at # "enabled"

\* C28: a prefixed allow-list entry that does not compile never makes Config
\* return an error: a configuration that decodes and whose max_challenge_age
\* parses is accepted, the failing entry adds no compiled expression, and the
\* compiled list of each authority holds, in list order, the anchored
\* expression of every prefixed entry that compiles.
C28_CompileFailureIsSkipped ==
    (ConfigRan /\ ConfigAccepted) =>
        /\ outcome.at = "config" => outcome.result = "nil"
        /\ Len(outcome.cf.Authorities) = Len(config.Authorities)
        /\ \A i \in 1..Len(config.Authorities) :
               outcome.cf.Authorities[i].allowedIssuersRegex =
                   ExpectedExpressions(config.Authorities[i].AllowedIssuers)

\* C28 witness: Validate accepted a configuration whose second authority has
\* a prefixed entry that does not compile between two that do
C28_Witness ==
    /\ outcome.op = "Validate"
    /\ outcome.result = "nil"
    /\ Len(config.Authorities) = 2
    /\ HasFailingEntry(config.Authorities[2])
    /\ Len(outcome.cf.Authorities[2].allowedIssuersRegex) = 2

\* the bound of the configuration a call was given
OwnBound(t) == Config(callers[t].cfg).maxAge

\* another call ran Config between this call's Config and one of its reads
ReadForeignBound(t) ==
    \E k \in 1..Len(callers[t].reads) : callers[t].reads[k] # OwnBound(t)

\* C21: every value an Authenticate call reads from maxChallengeAge, at line
\* 108 and in the test of line 134, is the max_challenge_age of the
\* configuration given to that call, whatever other calls run on the
\* instance meanwhile; so its answer is the one it gives when it runs alone.
C21_OwnBoundApplied ==
    \A t \in CallerIds :
        callers[t].op = "Authenticate" =>
            /\ ~ReadForeignBound(t)
            /\ callers[t].pc = "done" =>
                   LET alone == AuthenticateResult(Config(callers[t].cfg), OwnBound(t),
                                                   callers[t].r, CHOOSE u \in NowSet : TRUE,
                                                   {1})
                   IN  callers[t].at = alone.at /\ callers[t].result = alone.result

-----------------------------------------------------------------------------
(* Properties of the authorizer *)

Authorizing == azCall.op = "Authorize"

\* the call got as far as the signing step: its configuration was accepted
\* and the payload rendered to JSON
PayloadRendered ==
    /\ Authorizing
    /\ azOutcome.result.err \notin
           {"Misconfigured", "InvalidDuration", "TemplateParse", "TemplateExecute", "NotJSON"}

SigningConfigured == PayloadRendered /\ azCall.config.SignedPayload # <<>>

SignedPayloadOfCall == azCall.config.SignedPayload[1]

BothOrNeither ==
    (SignedPayloadOfCall.SharedKey # "") = (SignedPayloadOfCall.JWKSURL # "")

\* what signPayload returned for the call: applied to the call's own arguments
SignPayloadOfCall ==
    signPayload(azCall.env.signer, BaseHeader([header |-> azCall.header]),
                TemplateExecute(azCall.config.Payload, azCall.session).out,
                SignedPayloadOfCall.Header, SignedPayloadOfCall.SharedKey,
                SignedPayloadOfCall.JWKSURL, SignedPayloadOfCall.Issuer)

\* C3: signPayload called with both a shared key and a JWKS URL set, or with
\* neither, returns a non-nil configuration error and adds no signature header
\* to the outbound request; Authorize then returns that error without making
\* the HTTP call.
C3_BothOrNeitherIsError ==
    (SigningConfigured /\ BothOrNeither) =>
        /\ SignPayloadOfCall.err # "nil"
        /\ SignPayloadOfCall.header = BaseHeader([header |-> azCall.header])
        /\ azOutcome.result.err # "nil"
        /\ ~azOutcome.sent

\* the remote answered the call with a status code
Answered == Authorizing /\ azOutcome.sent /\ ~azCall.env.response.err

\* C6: a 403 response yields Forbidden, any other status different from 200
\* yields the generic error carrying the observed status, 200 yields nil, and
\* Authorize returns nil for no status other than 200.
C6_StatusMapping ==
    /\ Answered =>
           LET status == azCall.env.response.status
           IN  /\ status = 403 => azOutcome.result.err = "Forbidden"
               /\ status \notin {200, 403} =>
                      azOutcome.result = [err |-> "UnexpectedStatus", status |-> status]
               /\ status = 200 => azOutcome.result.err = "nil"
    /\ (Authorizing /\ azOutcome.result.err = "nil") =>
           (Answered /\ azCall.env.response.status = 200)

\* C6 witness: the remote answered 201 and Authorize returned the generic
\* error carrying 201
C6_Witness ==
    /\ Answered
    /\ azCall.env.response.status = 201
    /\ azOutcome.result = [err |-> "UnexpectedStatus", status |-> 201]

ForwardList == azCall.config.ForwardResponseHeadersToUpstream

\* the values session.SetHeader was called with for name
SetHeaderValues(name) ==
    {azOutcome.setHeader[k].value :
        k \in {m \in 1..Len(azOutcome.setHeader) : azOutcome.setHeader[m].name = name}}

\* C9: when the remote returns 200, every header of the forward-list is set
\* in the session to the response's value for it, the empty value when the
\* response lacks it, and no other header is set; on every other outcome of
\* Authorize no session header is set.
C9_ForwardOnlyOnSuccess ==
    Authorizing =>
        IF Answered /\ azCall.env.response.status = 200
        THEN /\ \A k \in 1..Len(ForwardList) :
                    SetHeaderValues(ForwardList[k]) =
                        { IF ForwardList[k] \in DOMAIN azCall.env.response.header
                          THEN azCall.env.response.header[ForwardList[k]]
                          ELSE <<>> }
             /\ \A k \in 1..Len(azOutcome.setHeader) :
                    Contains(ForwardList, azOutcome.setHeader[k].name)
        ELSE azOutcome.setHeader = <<>>

\* C9 witness: a 200 response carrying X-User and X-Trace but not X-Missing,
\* with all three on the forward-list
C9_Witness ==
    /\ Answered
    /\ azCall.env.response.status = 200
    /\ ForwardList = <<"X-Missing", "X-User", "X-Trace">>
    /\ DOMAIN azCall.env.response.header = {"X-User", "X-Trace"}
    /\ Len(azOutcome.setHeader) = 3

\* the names under which signPayload can add a signature to the request: the
\* configured header, or the default of the HMAC or of the JWKS mode
SignatureHeaderNames ==
    IF SignedPayloadOfCall.Header # ""
    THEN {SignedPayloadOfCall.Header}
    ELSE {"X-Request-Signature", "X-Jwks-Signature"}

\* C19: when signed-payload parameters are configured, Authorize does not
\* execute the outbound HTTP call without a signature header on the request:
\* whenever the call was executed, the request carried a signature header.
C19_NoUnsignedCall ==
    (Authorizing /\ azCall.config.SignedPayload # <<>> /\ azOutcome.sent) =>
        \E name \in SignatureHeaderNames : name \in DOMAIN azOutcome.header

\* the rendering of the template string the call's configuration gives for
\* its k-th header
RenderingOfCall(k) == TemplateExecute(azCall.config.Headers[k].template, azCall.session)

\* C23: the value Authorize sends for a configured header is the rendering of
\* the template string of the current call's configuration: the call is made
\* only when that string parses and executes, and a non-empty rendering is
\* the value of the header on the outbound request
C23_HeaderFromCurrentTemplate ==
    (Authorizing /\ azOutcome.sent) =>
        \A k \in 1..Len(azCall.config.Headers) :
            /\ TemplateParses(azCall.config.Headers[k].template)
            /\ RenderingOfCall(k).ok
            /\ RenderingOfCall(k).out # <<>> =>
                  HeaderGet(azOutcome.header, azCall.config.Headers[k].name)
                      = <<RenderingOfCall(k).out>>
            /\ (RenderingOfCall(k).out = <<>> /\ azCall.config.SignedPayload = <<>>) =>
                  azCall.config.Headers[k].name \notin DOMAIN azOutcome.header

\* Config has returned a configuration to the call in progress
AuthorizerConfigReturned ==
    \/ Authorizing /\ azOutcome.result.err \notin {"Misconfigured", "InvalidDuration"}
    \/ azCall.op = "Validate" /\ azOutcome.result.err = "nil"

\* C24: the connection timeout Config gives the HTTP client is the duration
\* parsed from the retry max_delay, and the maximum retry wait the duration
\* parsed from give_up_after
C24_ClientDurations ==
    AuthorizerConfigReturned =>
        /\ client.connectionTimeout = ParseRetryDuration(azCall.config.Retry.Timeout).d
        /\ client.maxRetryWait = ParseRetryDuration(azCall.config.Retry.MaxWait).d

\* the payload template of the call renders, and what it renders is not a
\* JSON text: a bare subject, nothing at all, or an object whose string is
\* cut short by a quote in the subject
RendersNonJSON ==
    /\ Authorizing
    /\ azOutcome.result.err \notin {"Misconfigured", "InvalidDuration"}
    /\ \/ azCall.config.Payload \in {TmplSubject, TmplEmpty}
       \/ azCall.config.Payload = TmplSubjectJSON
            /\ azCall.session.Subject \in SubjectsWithQuote

\* C25: when the rendered payload is not a JSON text, Authorize returns the
\* not-JSON error, builds and sends no request, and signs nothing
C25_NonJSONIsHardError ==
    RendersNonJSON =>
        /\ azOutcome.result.err = "NotJSON"
        /\ ~azOutcome.sent
        /\ azOutcome.header = <<>>
        /\ azOutcome.setHeader = <<>>

\* C25 witness: signing is configured, the signer works, the remote would
\* answer 200, and the payload renders to a text that is not JSON
C25_Witness ==
    /\ RendersNonJSON
    /\ azCall.config.SignedPayload # <<>>
    /\ azCall.env.signer.ok
    /\ ~azCall.env.response.err /\ azCall.env.response.status = 200
    /\ azOutcome.result.err = "NotJSON"

-----------------------------------------------------------------------------
(* fosite: the scope strategies.  A scope is a sequence of characters; the  *)
(* indices pi, ci, k of the program count from 0, so character i of the     *)
(* program is element i + 1 of the sequence.                                *)

\* the index of the first dot of s at or after index i, Len(s) when none
RECURSIVE SegmentEnd(_, _)
SegmentEnd(s, i) ==
    IF i < Len(s) /\ s[i + 1] # "." THEN SegmentEnd(s, i + 1) ELSE i

\* strings.Split(s, "."): "" splits into one empty segment
RECURSIVE SplitDots(_)
SplitDots(s) ==
    LET e == SegmentEnd(s, 0)
    IN  IF e >= Len(s) THEN <<s>>
        ELSE <<SubSeq(s, 1, e)>> \o SplitDots(SubSeq(s, e + 2, Len(s)))

\* the loop of HierarchicScopeStrategy over the needle's segments from k on:
\* "true" when it returns true, "next" when it ends or breaks
RECURSIVE SegmentLoop(_, _, _)
SegmentLoop(currentHaystack, needles, k) ==
    IF k >= Len(needles) THEN "next"
    ELSE IF Len(currentHaystack) - 1 < k THEN "true"
    ELSE IF currentHaystack[k + 1] # needles[k + 1] THEN "next"
    ELSE SegmentLoop(currentHaystack, needles, k + 1)

\* HierarchicFrom that returns false at the first entry that does not
\* authorize the needle
RECURSIVE HierarchicFrom_StopsAtMismatch(_, _, _)
HierarchicFrom_StopsAtMismatch(haystack, i, needle) ==
    IF i > Len(haystack) THEN FALSE
    ELSE LET this == haystack[i]
         IN  IF this = needle THEN TRUE
             ELSE IF Len(this) > Len(needle) THEN FALSE
             ELSE SegmentLoop(SplitDots(this), SplitDots(needle), 0) = "true"

\* the loop of HierarchicScopeStrategy over the haystack from entry i on
RECURSIVE HierarchicFrom(_, _, _)
HierarchicFrom(haystack, i, needle) ==
    IF i > Len(haystack) THEN FALSE
    ELSE LET this == haystack[i]
         IN  IF this = needle THEN TRUE
             ELSE IF Len(this) > Len(needle) THEN HierarchicFrom(haystack, i + 1, needle)
             ELSE IF SegmentLoop(SplitDots(this), SplitDots(needle), 0) = "true" THEN TRUE
             ELSE HierarchicFrom(haystack, i + 1, needle)

HierarchicScopeStrategy(haystack, needle) == HierarchicFrom(haystack, 1, needle)

\* hasEmptySegment without the test of the last character
hasEmptySegment_IgnoresTrailingDot(s) ==
    /\ Len(s) # 0
    /\ \/ s[1] = "."
       \/ \E i \in 1..(Len(s) - 1) : s[i + 1] = "." /\ s[i] = "."

hasEmptySegment(s) ==
    /\ Len(s) # 0
    /\ \/ s[1] = "." \/ s[Len(s)] = "."
       \/ \E i \in 1..(Len(s) - 1) : s[i + 1] = "." /\ s[i] = "."

\* the index after the segment that starts at i, and after its dot if any
NextSegment(s, i) ==
    LET e == SegmentEnd(s, i)
    IN  IF e < Len(s) /\ s[e + 1] = "." THEN e + 1 ELSE e

RECURSIVE matchFrom(_, _, _, _)
RECURSIVE StarTrials(_, _, _, _)

\* the loop of matchFrom for "*": the trials of the rest of the pattern at
\* ciTry and at every later segment boundary of the candidate
StarTrials(pattern, nextPi, candidate, ciTry) ==
    \/ matchFrom(pattern, nextPi, candidate, ciTry)
    \/ /\ ciTry < Len(candidate)
       /\ StarTrials(pattern, nextPi, candidate, NextSegment(candidate, ciTry))

matchFrom(pattern, pi, candidate, ci) ==
    IF pi >= Len(pattern) /\ ci >= Len(candidate) THEN TRUE
    ELSE IF pi >= Len(pattern) THEN FALSE
    ELSE
      LET pStart == pi
          pEnd == SegmentEnd(pattern, pi)
          nextPi == NextSegment(pattern, pi)
      IN  IF pEnd - pStart = 1 /\ pattern[pStart + 1] = "*"
          THEN IF nextPi >= Len(pattern) THEN TRUE
               ELSE StarTrials(pattern, nextPi, candidate, ci)
          ELSE IF ci >= Len(candidate) THEN FALSE
          ELSE IF candidate[ci + 1] = "." THEN FALSE
          ELSE
            LET cStart == ci
                cEnd == SegmentEnd(candidate, ci)
                nextCi == NextSegment(candidate, ci)
            IN  IF pEnd - pStart = 1 /\ pattern[pStart + 1] = "+"
                THEN matchFrom(pattern, nextPi, candidate, nextCi)
                ELSE IF pEnd - pStart # cEnd - cStart THEN FALSE
                ELSE IF \E k \in 0..(pEnd - pStart - 1) :
                            pattern[pStart + k + 1] # candidate[cStart + k + 1]
                THEN FALSE
                ELSE matchFrom(pattern, nextPi, candidate, nextCi)

matchPattern(pattern, candidate) ==
    IF hasEmptySegment(candidate) THEN FALSE
    ELSE matchFrom(pattern, 0, candidate, 0)

WildcardScopeStrategy(haystack, needle) ==
    \E i \in 1..Len(haystack) : matchPattern(haystack[i], needle)

-----------------------------------------------------------------------------
(* reusableReader.  A bytes.Buffer is the sequence of its unread bytes.  The *)
(* reader r is its two buffers: its Reader is io.TeeReader(readBuf,         *)
(* backBuf), which reads from readBuf and writes what it read to backBuf.   *)

\* lines 214-224; body is the reader given, as the bytes it delivers
newReusableReader(body) == [readBuf |-> body, backBuf |-> <<>>]

\* reset that drops the bytes read so far
reset_Discarding(r) == [readBuf |-> r.readBuf, backBuf |-> <<>>]

\* lines 226-228: io.Copy appends the unread bytes of backBuf to readBuf and
\* leaves backBuf empty
reset(r) == [readBuf |-> r.readBuf \o r.backBuf, backBuf |-> <<>>]

\* lines 230-236, for a buffer p of n > 0 bytes: the bytes read, whether err
\* is io.EOF, and the reader afterwards.  bytes.Buffer.Read returns io.EOF,
\* with no bytes, only when the buffer is empty.
Read(r, n) ==
    IF Len(r.readBuf) = 0
    THEN [p |-> <<>>, eof |-> TRUE, r |-> reset(r)]
    ELSE LET k == IF n < Len(r.readBuf) THEN n ELSE Len(r.readBuf)
             p == SubSeq(r.readBuf, 1, k)
         IN  [p |-> p, eof |-> FALSE,
              r |-> [readBuf |-> SubSeq(r.readBuf, k + 1, Len(r.readBuf)),
                     backBuf |-> r.backBuf \o p]]

\* no request: original is the body as the client sent it, src what is left
\* of it in r.Body, peeked the byte hasRequestBody put in front of it, r the
\* reusable reader, body the buffer Authenticate fills and hands to the
\* verifier, pass what the stage now reading r.Body has read, last the bytes
\* of the latest pass that reached io.EOF, passes their number up to two
NoReader ==
    [pc |-> "none", original |-> <<>>, src |-> <<>>, peeked |-> <<>>,
     r |-> [readBuf |-> <<>>, backBuf |-> <<>>], body |-> <<>>,
     pass |-> <<>>, last |-> <<>>, passes |-> 0]

ReaderInit == reader = NoReader

\* a request with this body reaches Authenticate
Arrive(bytes) ==
    reader' = [NoReader EXCEPT !.pc = "switch", !.original = bytes, !.src = bytes]

\* line 100, lines 238-256: one byte is read and put back in front
PeekBody ==
    /\ reader.pc = "switch"
    /\ Len(reader.src) > 0
    /\ reader' = [reader EXCEPT !.pc = "wrap", !.peeked = <<Head(reader.src)>>,
                                !.src = Tail(reader.src)]

\* line 100 is false: the body is not read through a reusable reader
NoBody ==
    /\ reader.pc = "switch"
    /\ Len(reader.src) = 0
    /\ reader' = NoReader

\* line 101: r.Body is replaced by a reusable reader of the restored body
WrapBody ==
    /\ reader.pc = "wrap"
    /\ reader' = [reader EXCEPT !.pc = "ReadFrom",
                                !.r = newReusableReader(reader.peeked \o reader.src),
                                !.peeked = <<>>, !.src = <<>>]

\* line 102: body.ReadFrom(r.Body) reads until io.EOF
AuthenticateRead(n) ==
    /\ reader.pc = "ReadFrom"
    /\ LET read == Read(reader.r, n)
       IN  reader' = [reader EXCEPT !.r = read.r,
                                    !.body = reader.body \o read.p,
                                    !.pc = IF read.eof THEN "stage" ELSE "ReadFrom"]

\* a later stage of the pipeline reads r.Body, up to io.EOF
StageRead(n) ==
    /\ reader.pc = "stage"
    /\ LET read == Read(reader.r, n)
       IN  reader' =
             IF read.eof
             THEN [reader EXCEPT !.r = read.r, !.pass = <<>>, !.last = reader.pass,
                                 !.passes = IF reader.passes < 2 THEN reader.passes + 1
                                            ELSE 2]
             ELSE [reader EXCEPT !.r = read.r, !.pass = reader.pass \o read.p]

\* the request has been served
Served ==
    /\ reader.pc = "stage"
    /\ reader.pass = <<>>
    /\ reader' = NoReader

Bytes == {1, 2}

Bodies == UNION {[1..n -> Bytes] : n \in 0..MaxBodyLen}

ReaderStep ==
    \/ /\ reader.pc = "none"
       /\ \E bytes \in Bodies : Arrive(bytes)
    \/ PeekBody
    \/ NoBody
    \/ WrapBody
    \/ \E n \in 1..MaxRead : AuthenticateRead(n)
    \/ \E n \in 1..MaxRead : StageRead(n)
    \/ Served

-----------------------------------------------------------------------------
(* fosite: matchFrom, call by call.  Each call of matchFrom is a frame with *)
(* its arguments pi and ci; a frame is at "entry" until it has run lines    *)
(* 108-195 up to a return or a recursive call, at "loop" while the call of  *)
(* line 141 runs (nextPi and ciTry are its locals) and at "tail" while the  *)
(* call of line 183 or 195 runs.  ret is the value the latest call that     *)
(* returned gave back; trials counts the iterations of the loop of line 140 *)
(* after the first, up to two.                                              *)

Frame(pi, ci) == [pc |-> "entry", pi |-> pi, ci |-> ci, nextPi |-> 0, ciTry |-> 0]

\* lines 148-155: skip the current segment of the candidate, and its dot
SkipSegment_KeepsDot(candidate, ciTry) == SegmentEnd(candidate, ciTry)

SkipSegment(candidate, ciTry) ==
    LET e == SegmentEnd(candidate, ciTry)
    IN  IF e < Len(candidate) /\ candidate[e + 1] = "." THEN e + 1 ELSE e

\* lines 108-195 of one call, up to its return ("return", with the value) or
\* its first recursive call ("loop": line 141, "tail": lines 183 and 195)
FrameStep(pattern, pi, candidate, ci) ==
    LET return(v) == [kind |-> "return", value |-> v, nextPi |-> 0, ci |-> 0]
        pStart == pi
        pEnd == SegmentEnd(pattern, pi)
        nextPi == IF pEnd < Len(pattern) /\ pattern[pEnd + 1] = "." THEN pEnd + 1 ELSE pEnd
        cStart == ci
        cEnd == SegmentEnd(candidate, ci)
        nextCi == IF cEnd < Len(candidate) /\ candidate[cEnd + 1] = "." THEN cEnd + 1 ELSE cEnd
        tail == [kind |-> "tail", value |-> "none", nextPi |-> nextPi, ci |-> nextCi]
    IN  IF pi >= Len(pattern) /\ ci >= Len(candidate) THEN return("true")
        ELSE IF pi >= Len(pattern) THEN return("false")
        ELSE IF pEnd - pStart = 1 /\ pattern[pStart + 1] = "*"
        THEN IF nextPi >= Len(pattern) THEN return("true")
             ELSE [kind |-> "loop", value |-> "none", nextPi |-> nextPi, ci |-> ci]
        ELSE IF ci >= Len(candidate) THEN return("false")
        ELSE IF candidate[ci + 1] = "." THEN return("false")
        ELSE IF pEnd - pStart = 1 /\ pattern[pStart + 1] = "+" THEN tail
        ELSE IF pEnd - pStart # cEnd - cStart THEN return("false")
        ELSE IF \E k \in 0..(pEnd - pStart - 1) :
                    pattern[pStart + k + 1] # candidate[cStart + k + 1]
        THEN return("false")
        ELSE tail

NoMatching ==
    [op |-> "none", pattern |-> <<>>, candidate |-> <<>>, stack |-> <<>>,
     ret |-> "none", trials |-> 0]

MatchInit == matching = NoMatching

MatchIdle == matching.op = "none"

Depth == Len(matching.stack)

Top == matching.stack[Depth]

AtEntry == Depth > 0 /\ Top.pc = "entry"

Entered == FrameStep(matching.pattern, Top.pi, matching.candidate, Top.ci)

Pop == SubSeq(matching.stack, 1, Depth - 1)

\* matchFrom(pattern, 0, candidate, 0) is called
MatchFromCall(pattern, candidate) ==
    matching' = [op |-> "matchFrom", pattern |-> pattern, candidate |-> candidate,
                 stack |-> <<Frame(0, 0)>>, ret |-> "none", trials |-> 0]

\* the call on top returns without calling matchFrom
Decide ==
    /\ AtEntry
    /\ Entered.kind = "return"
    /\ matching' = [matching EXCEPT !.stack = Pop, !.ret = Entered.value]

\* line 139, and line 141 for the first time
EnterLoop ==
    /\ AtEntry
    /\ Entered.kind = "loop"
    /\ matching' =
         [matching EXCEPT
            !.stack = Append(Pop, [Top EXCEPT !.pc = "loop", !.nextPi = Entered.nextPi,
                                              !.ciTry = Top.ci])
                          \o <<Frame(Entered.nextPi, Top.ci)>>]

\* lines 183 and 195
EnterTail ==
    /\ AtEntry
    /\ Entered.kind = "tail"
    /\ matching' =
         [matching EXCEPT
            !.stack = Append(Pop, [Top EXCEPT !.pc = "tail", !.nextPi = Entered.nextPi])
                          \o <<Frame(Entered.nextPi, Entered.ci)>>]

\* lines 183 and 195: the value of the call is returned
TailReturn ==
    /\ Depth > 0 /\ Top.pc = "tail" /\ matching.ret # "none"
    /\ matching' = [matching EXCEPT !.stack = Pop]

\* lines 141-143
TrialMatched ==
    /\ Depth > 0 /\ Top.pc = "loop" /\ matching.ret = "true"
    /\ matching' = [matching EXCEPT !.stack = Pop]

\* lines 145-147 and 157
TrialsExhausted ==
    /\ Depth > 0 /\ Top.pc = "loop" /\ matching.ret = "false"
    /\ Top.ciTry >= Len(matching.candidate)
    /\ matching' = [matching EXCEPT !.stack = Pop]

\* lines 148-155, and line 141 again
NextTrial ==
    /\ Depth > 0 /\ Top.pc = "loop" /\ matching.ret = "false"
    /\ Top.ciTry < Len(matching.candidate)
    /\ LET ciTry == SkipSegment(matching.candidate, Top.ciTry)
       IN  matching' =
             [matching EXCEPT
                !.stack = Append(Pop, [Top EXCEPT !.ciTry = ciTry])
                              \o <<Frame(Top.nextPi, ciTry)>>,
                !.ret = "none",
                !.trials = IF matching.trials < 2 THEN matching.trials + 1 ELSE 2]

\* the outermost call has returned: its caller takes the value
MatchFromReturn ==
    /\ ~MatchIdle /\ Depth = 0
    /\ matching' = NoMatching

\* the steps of a call in progress
MatchRun ==
    \/ Decide
    \/ EnterLoop
    \/ EnterTail
    \/ TailReturn
    \/ TrialMatched
    \/ TrialsExhausted
    \/ NextTrial

-----------------------------------------------------------------------------
(* rule: regexpMatchingEngine.  A pattern is a sequence of characters.  The *)
(* sentinel characters that compile substitutes for << and >> are written   *)
(* "{" and "}" here.  The checksum is a reflected CRC of ChecksumBits bits  *)
(* over character codes of ChecksumBits bits, computed bit by bit as        *)
(* hash/crc64 does: like crc64, it maps the empty pattern to 0 and maps     *)
(* some distinct patterns to the same value.                                *)

startSentinel == "{"

endSentinel == "}"

\* the generator polynomial of the checksum, in reflected form
polynomial == 12

RECURSIVE Xor(_, _)
Xor(a, b) ==
    IF a = 0 THEN b
    ELSE IF b = 0 THEN a
    ELSE (((a % 2) + (b % 2)) % 2) + 2 * Xor(a \div 2, b \div 2)

ChecksumMask == 2^ChecksumBits - 1

\* the characters of patterns and texts, in the order of their codes
Alphabet ==
    <<"a", "b", ":", "<", ">", "(", ")", "?", "=", ".", "*", "n", "5", "!", "{", "}",
      "\\", "k">>

CharCode(c) == (CHOOSE k \in 1..Len(Alphabet) : Alphabet[k] = c) % 2^ChecksumBits

\* the n shift-and-subtract steps of the CRC for one character
RECURSIVE ShiftSteps(_, _)
ShiftSteps(crc, n) ==
    IF n = 0 THEN crc
    ELSE ShiftSteps(IF crc % 2 = 1 THEN Xor(crc \div 2, polynomial) ELSE crc \div 2, n - 1)

\* crc64.MakeTable(polynomial): the register after one character, for every
\* value of the register combined with the character
crcTable == [b \in 0..ChecksumMask |-> ShiftSteps(b, ChecksumBits)]

RECURSIVE crcUpdate(_, _, _)
crcUpdate(crc, p, i) ==
    IF i > Len(p) THEN crc
    ELSE crcUpdate(crcTable[Xor(crc, CharCode(p[i]))], p, i + 1)

\* crc64.Checksum: the register starts and ends complemented
crc64Checksum(p) == Xor(crcUpdate(ChecksumMask, p, 1), ChecksumMask)

\* strings.Contains
ContainsSub(s, sub) ==
    \E i \in 1..(Len(s) - Len(sub) + 1) : SubSeq(s, i, i + Len(sub) - 1) = sub

\* strings.ReplaceAll: the non-overlapping occurrences, left to right
RECURSIVE ReplaceAll(_, _, _)
ReplaceAll(s, old, new) ==
    IF Len(s) < Len(old) THEN s
    ELSE IF SubSeq(s, 1, Len(old)) = old
    THEN new \o ReplaceAll(SubSeq(s, Len(old) + 1, Len(s)), old, new)
    ELSE <<s[1]>> \o ReplaceAll(Tail(s), old, new)

\* the pre-pass of compile: the rewritten pattern and the delimiter pair, or
\* the error for (?> or (?< without both sentinels
Delimiters(pattern) ==
    LET hasStart == ContainsSub(pattern, <<"<", "<">>)
        p1 == IF hasStart THEN ReplaceAll(pattern, <<"<", "<">>, <<startSentinel>>)
              ELSE pattern
        hasEnd == ContainsSub(p1, <<">", ">">>)
        p2 == IF hasEnd THEN ReplaceAll(p1, <<">", ">">>, <<endSentinel>>) ELSE p1
    IN  IF ContainsSub(p2, <<"(", "?", ">">>) \/ ContainsSub(p2, <<"(", "?", "<">>)
        THEN IF ContainsSub(p2, <<startSentinel>>) /\ ContainsSub(p2, <<endSentinel>>)
             THEN [err |-> "nil", pattern |-> p2,
                   startDelim |-> startSentinel, endDelim |-> endSentinel]
             ELSE [err |-> "delimiters", pattern |-> p2, startDelim |-> "<", endDelim |-> ">"]
        ELSE [err |-> "nil", pattern |-> p2,
              startDelim |-> IF hasStart THEN startSentinel ELSE "<",
              endDelim |-> IF hasEnd THEN endSentinel ELSE ">"]

\* compiler.CompileRegex, first pass: the template cut at the outermost
\* delimiter pairs into raw text and delimited spans, from character i on at
\* nesting level `level`, the current piece having started at `from`; not ok
\* when the delimiters are unbalanced
RECURSIVE TemplateParts(_, _, _, _, _, _)
TemplateParts(s, startDelim, endDelim, i, level, from) ==
    IF i > Len(s)
    THEN [ok |-> level = 0, parts |-> <<[span |-> FALSE, text |-> SubSeq(s, from, Len(s))]>>]
    ELSE IF s[i] = startDelim
    THEN IF level = 0
         THEN LET rest == TemplateParts(s, startDelim, endDelim, i + 1, 1, i + 1)
              IN  [ok |-> rest.ok,
                   parts |-> <<[span |-> FALSE, text |-> SubSeq(s, from, i - 1)]>> \o rest.parts]
         ELSE TemplateParts(s, startDelim, endDelim, i + 1, level + 1, from)
    ELSE IF s[i] = endDelim
    THEN IF level = 0 THEN [ok |-> FALSE, parts |-> <<>>]
         ELSE IF level = 1
         THEN LET rest == TemplateParts(s, startDelim, endDelim, i + 1, 0, i + 1)
              IN  [ok |-> rest.ok,
                   parts |-> <<[span |-> TRUE, text |-> SubSeq(s, from, i - 1)]>> \o rest.parts]
         ELSE TemplateParts(s, startDelim, endDelim, i + 1, level - 1, from)
    ELSE TemplateParts(s, startDelim, endDelim, i + 1, level, from)

(* regexp2: the fragment the rule patterns use.  A compiled expression is   *)
(* a sequence of tokens: bol, eol, lit (one character), any (.), star and   *)
(* opt (the quantifiers * and ? of the single-character token before them), *)
(* open (a capture group, with its explicit name if any), group (the        *)
(* non-capturing (?: and (?> groups), close, behind (a lookbehind (?<=text)  *)
(* or (?<!text) over literal text) and backref (the backreference \k<name>  *)
(* to a named group, the one escape of the fragment).                       *)

Token(k, text, name, neg) == [k |-> k, text |-> text, name |-> name, neg |-> neg]

\* the index of the first c in p at or after i, 0 when there is none
RECURSIVE IndexFrom(_, _, _)
IndexFrom(p, c, i) ==
    IF i > Len(p) THEN 0 ELSE IF p[i] = c THEN i ELSE IndexFrom(p, c, i + 1)

\* the tokens of the expression p from character i on, inside `depth` open
\* groups, `atom` telling whether a quantifier may follow; not ok on a syntax
\* error (unbalanced parentheses, a quantifier after nothing, an unknown or
\* unterminated group construct, a reference to a group that does not exist)
RECURSIVE ParseRegex(_, _, _, _)
ParseRegex(p, i, depth, atom) ==
    IF i > Len(p) THEN [ok |-> depth = 0, tokens |-> <<>>]
    ELSE
      LET Fail == [ok |-> FALSE, tokens |-> <<>>]
          Then(tok, j, d, a) ==
              LET rest == ParseRegex(p, j, d, a)
              IN  [ok |-> rest.ok, tokens |-> <<tok>> \o rest.tokens]
          At(k) == IF i + k <= Len(p) THEN p[i + k] ELSE ""
      IN  IF p[i] = "("
          THEN IF At(1) # "?"
               THEN Then(Token("open", <<>>, <<>>, FALSE), i + 1, depth + 1, FALSE)
               ELSE IF At(2) = "<"
               THEN IF At(3) \in {"=", "!"}
                    THEN LET e == IndexFrom(p, ")", i + 4)
                         IN  IF e = 0 THEN Fail
                             ELSE Then(Token("behind", SubSeq(p, i + 4, e - 1), <<>>,
                                             At(3) = "!"),
                                       e + 1, depth, FALSE)
                    ELSE LET e == IndexFrom(p, ">", i + 3)
                         IN  IF e = 0 \/ e = i + 3 THEN Fail
                             ELSE Then(Token("open", <<>>, SubSeq(p, i + 3, e - 1), FALSE),
                                       e + 1, depth + 1, FALSE)
               ELSE IF At(2) \in {">", ":"}
               THEN Then(Token("group", <<>>, <<>>, FALSE), i + 3, depth + 1, FALSE)
               ELSE Fail
          ELSE IF p[i] = ")"
          THEN IF depth = 0 THEN Fail
               ELSE Then(Token("close", <<>>, <<>>, FALSE), i + 1, depth - 1, FALSE)
          ELSE IF p[i] = "."
          THEN Then(Token("any", <<>>, <<>>, FALSE), i + 1, depth, TRUE)
          ELSE IF p[i] \in {"*", "?"}
          THEN IF ~atom THEN Fail
               ELSE Then(Token(IF p[i] = "*" THEN "star" ELSE "opt", <<>>, <<>>, FALSE),
                         i + 1, depth, FALSE)
          ELSE IF p[i] = "\\"
          THEN LET e == IndexFrom(p, ">", i + 3)
               IN  IF At(1) # "k" \/ At(2) # "<" \/ e = 0 \/ e = i + 3 THEN Fail
                   ELSE Then(Token("backref", <<>>, SubSeq(p, i + 3, e - 1), FALSE),
                             e + 1, depth, FALSE)
          ELSE Then(Token("lit", <<p[i]>>, <<>>, FALSE), i + 1, depth, TRUE)

\* regexp.QuoteMeta(raw): every character of raw stands for itself
Literals(raw) == [k \in 1..Len(raw) |-> Token("lit", <<raw[k]>>, <<>>, FALSE)]

\* compiler.CompileRegex, second pass: raw text is quoted, every span becomes
\* a capture group around its expression
RECURSIVE PartsTokens(_, _)
PartsTokens(parts, k) ==
    IF k > Len(parts) THEN [ok |-> TRUE, tokens |-> <<>>]
    ELSE LET rest == PartsTokens(parts, k + 1)
             inner == ParseRegex(parts[k].text, 1, 0, FALSE)
         IN  IF ~parts[k].span
             THEN [ok |-> rest.ok, tokens |-> Literals(parts[k].text) \o rest.tokens]
             ELSE [ok |-> inner.ok /\ rest.ok,
                   tokens |-> <<Token("open", <<>>, <<>>, FALSE)>> \o inner.tokens
                                \o <<Token("close", <<>>, <<>>, FALSE)>> \o rest.tokens]

\* compiler.CompileRegex: the expression ^...$ of the template, or an error
CompileRegex(tpl, startDelim, endDelim) ==
    LET cut == TemplateParts(tpl, startDelim, endDelim, 1, 0, 1)
        body == PartsTokens(cut.parts, 1)
    IN  IF ~cut.ok THEN [err |-> "unbalanced", re |-> <<>>]
        ELSE IF ~body.ok THEN [err |-> "syntax", re |-> <<>>]
        ELSE IF \E i \in 1..Len(body.tokens) :
                    /\ body.tokens[i].k = "backref"
                    /\ ~\E o \in 1..Len(body.tokens) :
                           /\ body.tokens[o].k = "open"
                           /\ body.tokens[o].name = body.tokens[i].name
        THEN [err |-> "syntax", re |-> <<>>]
        ELSE [err |-> "nil",
              re |-> <<Token("bol", <<>>, <<>>, FALSE)>> \o body.tokens
                       \o <<Token("eol", <<>>, <<>>, FALSE)>>]

(* strconv: decimal numbers *)

DigitChars == <<"0", "1", "2", "3", "4", "5", "6", "7", "8", "9">>

IsDigit(c) == \E d \in 1..10 : DigitChars[d] = c

DigitValue(c) == (CHOOSE d \in 1..10 : DigitChars[d] = c) - 1

RECURSIVE DecimalValue(_)
DecimalValue(digits) ==
    IF digits = <<>> THEN 0
    ELSE 10 * DecimalValue(SubSeq(digits, 1, Len(digits) - 1))
           + DigitValue(digits[Len(digits)])

\* strconv.Atoi: an optional sign, then one or more digits
Atoi(s) ==
    LET signed == s # <<>> /\ s[1] \in {"+", "-"}
        digits == IF signed THEN Tail(s) ELSE s
    IN  IF digits = <<>> \/ \E k \in 1..Len(digits) : ~IsDigit(digits[k])
        THEN [ok |-> FALSE, n |-> 0]
        ELSE [ok |-> TRUE,
              n |-> IF signed /\ s[1] = "-" THEN 0 - DecimalValue(digits)
                    ELSE DecimalValue(digits)]

\* strconv.Itoa of a natural number
RECURSIVE Itoa(_)
Itoa(n) ==
    IF n < 10 THEN <<DigitChars[n + 1]>>
    ELSE Itoa(n \div 10) \o <<DigitChars[(n % 10) + 1]>>

(* regexp2: group numbers.  Unnamed groups are numbered 1, 2, ... in the    *)
(* order of their opening parentheses; a group named by a number has that   *)
(* number; the groups with other names take the free numbers after the      *)
(* unnamed ones, in order.                                                  *)

IsNumberName(name) ==
    /\ name # <<>>
    /\ \A k \in 1..Len(name) : IsDigit(name[k])
    /\ name[1] # "0"

Opens(re) == {i \in 1..Len(re) : re[i].k = "open"}

UnnamedOpens(re) == {i \in Opens(re) : re[i].name = <<>>}

NumberedOpens(re) == {i \in Opens(re) : IsNumberName(re[i].name)}

NamedOpens(re) == Opens(re) \ (UnnamedOpens(re) \cup NumberedOpens(re))

ExplicitNumbers(re) == {DecimalValue(re[i].name) : i \in NumberedOpens(re)}

\* the least number from n on that no group claims by its name
RECURSIVE FreeNumber(_, _)
FreeNumber(re, n) == IF n \in ExplicitNumbers(re) THEN FreeNumber(re, n + 1) ELSE n

\* the number of the named group at i
RECURSIVE NamedNumber(_, _)
NamedNumber(re, i) ==
    LET earlier == {j \in NamedOpens(re) : j < i}
        sameName == {j \in earlier : re[j].name = re[i].name}
        last == CHOOSE j \in earlier : \A l \in earlier : l <= j
    IN  IF sameName # {} THEN NamedNumber(re, CHOOSE j \in sameName : TRUE)
        ELSE IF earlier = {} THEN FreeNumber(re, Cardinality(UnnamedOpens(re)) + 1)
        ELSE FreeNumber(re, NamedNumber(re, last) + 1)

GroupNumber(re, i) ==
    IF i \in UnnamedOpens(re) THEN Cardinality({j \in UnnamedOpens(re) : j <= i})
    ELSE IF i \in NumberedOpens(re) THEN DecimalValue(re[i].name)
    ELSE NamedNumber(re, i)

GroupNumbers(re) == {GroupNumber(re, i) : i \in Opens(re)}

\* the name of group n: its explicit name, else its number in decimal
GroupName(re, n) ==
    LET named == {i \in NamedOpens(re) : GroupNumber(re, i) = n}
    IN  IF named # {} THEN re[CHOOSE i \in named : TRUE].name ELSE Itoa(n)

(* regexp2: matching by backtracking.  Run matches the tokens from i on     *)
(* against s from position j on; stack holds the open groups (number 0 for  *)
(* a non-capturing one) with the position they opened at, caps the captures *)
(* made so far, latest last.                                                *)

RECURSIVE Run(_, _, _, _, _, _)
Run(re, i, s, j, stack, caps) ==
    IF i > Len(re) THEN [ok |-> TRUE, caps |-> caps]
    ELSE
      LET t == re[i]
          Fail == [ok |-> FALSE, caps |-> <<>>]
          here == j <= Len(s) /\ (t.k = "any" \/ <<s[j]>> = t.text)
          q == IF i < Len(re) THEN re[i + 1].k ELSE ""
          more == IF here THEN Run(re, i, s, j + 1, stack, caps) ELSE Fail
          one == IF here THEN Run(re, i + 2, s, j + 1, stack, caps) ELSE Fail
          n == Len(t.text)
          behind == j - 1 >= n /\ SubSeq(s, j - n, j - 1) = t.text
          referred == CHOOSE o \in Opens(re) : re[o].name = t.name
          made == {k \in 1..Len(caps) : caps[k].num = GroupNumber(re, referred)}
          again == caps[CHOOSE k \in made : \A l \in made : l <= k].text
      IN  CASE t.k = "bol" -> IF j = 1 THEN Run(re, i + 1, s, j, stack, caps) ELSE Fail
            [] t.k = "eol" ->
                 IF j = Len(s) + 1 THEN Run(re, i + 1, s, j, stack, caps) ELSE Fail
            [] t.k = "open" ->
                 Run(re, i + 1, s, j,
                     <<[num |-> GroupNumber(re, i), start |-> j]>> \o stack, caps)
            [] t.k = "group" ->
                 Run(re, i + 1, s, j, <<[num |-> 0, start |-> j]>> \o stack, caps)
            [] t.k = "close" ->
                 Run(re, i + 1, s, j, Tail(stack),
                     IF stack[1].num > 0
                     THEN Append(caps, [num |-> stack[1].num,
                                        text |-> SubSeq(s, stack[1].start, j - 1)])
                     ELSE caps)
            [] t.k = "behind" ->
                 IF behind # t.neg THEN Run(re, i + 1, s, j, stack, caps) ELSE Fail
            [] t.k = "backref" ->
                 IF /\ made # {}
                    /\ j + Len(again) - 1 <= Len(s)
                    /\ SubSeq(s, j, j + Len(again) - 1) = again
                 THEN Run(re, i + 1, s, j + Len(again), stack, caps)
                 ELSE Fail
            [] t.k \in {"lit", "any"} ->
                 IF q = "star"
                 THEN IF more.ok THEN more ELSE Run(re, i + 2, s, j, stack, caps)
                 ELSE IF q = "opt"
                 THEN IF one.ok THEN one ELSE Run(re, i + 2, s, j, stack, caps)
                 ELSE IF here THEN Run(re, i + 1, s, j + 1, stack, caps) ELSE Fail
            [] OTHER -> Fail

\* (*Regexp).MatchString
regexp2MatchString(re, s) == Run(re, 1, s, 1, <<>>, <<>>).ok

\* the text group n captured in caps: its last capture, or "" without one
Captured(caps, n) ==
    LET ks == {k \in 1..Len(caps) : caps[k].num = n}
    IN  IF ks = {} THEN <<>> ELSE caps[CHOOSE k \in ks : \A l \in ks : l <= k].text

\* the numbers in `numbers` in increasing order
RECURSIVE SortedNumbers(_)
SortedNumbers(numbers) ==
    IF numbers = {} THEN <<>>
    ELSE LET least == CHOOSE n \in numbers : \A o \in numbers : n <= o
         IN  <<least>> \o SortedNumbers(numbers \ {least})

\* (*Regexp).FindStringMatch followed by (*Match).Groups()[1:]: the groups
\* after group 0 in the order of their numbers, or no match
FindStringMatch(re, s) ==
    LET run == Run(re, 1, s, 1, <<>>, <<>>)
        order == SortedNumbers(GroupNumbers(re))
    IN  [matched |-> run.ok,
         groups |-> IF run.ok
                    THEN [k \in 1..Len(order) |->
                            [Name |-> GroupName(re, order[k]),
                             String |-> Captured(run.caps, order[k])]]
                    ELSE <<>>]

(* rule: what the engine's operations do with a pattern and a matcher *)

\* compile, once the checksum differs: the matcher of the pattern, or the error
Compiled(pattern) ==
    LET d == Delimiters(pattern)
    IN  IF d.err # "nil" THEN [err |-> d.err, re |-> <<>>]
        ELSE CompileRegex(d.pattern, d.startDelim, d.endDelim)

\* (*Regexp).Replace with a literal replacement: a matcher is anchored at both
\* ends, so the one possible match is the whole input
Replace(re, input, replacement) ==
    IF regexp2MatchString(re, input) THEN replacement ELSE input

\* FindStringSubmatch, the loop over m.Groups()[1:] from groupIndex on, taking
\* every group whatever its position
RECURSIVE Submatches_IgnoringPosition(_, _)
Submatches_IgnoringPosition(groups, groupIndex) ==
    IF groupIndex >= Len(groups) THEN <<>>
    ELSE LET group == groups[groupIndex + 1]
             nameAsInt == Atoi(group.Name)
         IN  (IF nameAsInt.ok THEN <<group.String>> ELSE <<>>)
               \o Submatches_IgnoringPosition(groups, groupIndex + 1)

\* FindStringSubmatch, the loop over m.Groups()[1:] from groupIndex on
RECURSIVE Submatches(_, _)
Submatches(groups, groupIndex) ==
    IF groupIndex >= Len(groups) THEN <<>>
    ELSE LET group == groups[groupIndex + 1]
             nameAsInt == Atoi(group.Name)
         IN  (IF nameAsInt.ok /\ groupIndex + 1 = nameAsInt.n
              THEN <<group.String>> ELSE <<>>)
               \o Submatches(groups, groupIndex + 1)

\* IsMatching after compile
IsMatching(re, matchAgainst) ==
    [err |-> "nil", value |-> regexp2MatchString(re, matchAgainst)]

\* ReplaceAllString after compile
ReplaceAllString(re, input, replacement) ==
    [err |-> "nil", value |-> Replace(re, input, replacement)]

\* FindStringSubmatch after compile
FindStringSubmatch(re, matchAgainst) ==
    LET m == FindStringMatch(re, matchAgainst)
    IN  IF ~m.matched THEN [err |-> "not match", value |-> <<>>]
        ELSE [err |-> "nil", value |-> Submatches(m.groups, 0)]

\* FindNamedStringSubmatch after compile: the map from group name to capture;
\* a later group of the same name overwrites an earlier one
FindNamedStringSubmatch(re, matchAgainst) ==
    LET m == FindStringMatch(re, matchAgainst)
        names == {m.groups[k].Name : k \in 1..Len(m.groups)}
        last(name) == CHOOSE k \in 1..Len(m.groups) :
                          /\ m.groups[k].Name = name
                          /\ \A l \in 1..Len(m.groups) : m.groups[l].Name = name => l <= k
    IN  IF ~m.matched THEN [err |-> "not match", value |-> <<>>]
        ELSE [err |-> "nil", value |-> [name \in names |-> m.groups[last(name)].String]]

\* the operation op on the matcher re
Operate(op, re, text, replacement) ==
    CASE op = "IsMatching" -> IsMatching(re, text)
      [] op = "ReplaceAllString" -> ReplaceAllString(re, text, replacement)
      [] op = "FindStringSubmatch" -> FindStringSubmatch(re, text)
      [] op = "FindNamedStringSubmatch" -> FindNamedStringSubmatch(re, text)

-----------------------------------------------------------------------------
(* The scope strategies' inputs *)

RECURSIVE JoinDots(_)
JoinDots(segs) ==
    IF Len(segs) = 0 THEN <<>>
    ELSE IF Len(segs) = 1 THEN segs[1]
    ELSE segs[1] \o <<".">> \o JoinDots(Tail(segs))

\* the segments granted patterns are built from: two literals of different
\* lengths, the two wildcards and the empty segment
PatternSegments == {<<"a">>, <<"a", "b">>, <<"*">>, <<"+">>, <<>>}

\* the segments requested scopes are built from
ScopeSegments == {<<"a">>, <<"a", "b">>, <<>>}

\* the patterns and candidates of the examples of matchPattern
ExamplePatterns ==
    {<<"a", ".", "+", ".", "c">>, <<"a", ".", "b", ".", "*", ".", "d">>,
     <<"x", ".", "*", ".", "y">>, <<"*", ".", "a", ".", "*", ".", "a">>}

ExampleScopes ==
    {<<"a", ".", "b", ".", "c">>, <<"a", ".", "b", ".", "c", ".", "d">>,
     <<"a", ".", "b", ".", "d">>, <<"x", ".", "y">>, <<"x", ".", "a", ".", "b", ".", "y">>,
     <<"a", ".", ".", "c">>, <<"b", ".", "a", ".", "b", ".", "a">>}

Patterns == {JoinDots(l) : l \in SeqsUpTo(PatternSegments, MaxSegments)} \cup ExamplePatterns

Scopes == {JoinDots(l) : l \in SeqsUpTo(ScopeSegments, MaxSegments)} \cup ExampleScopes

\* the entries of the two-entry haystacks
PairPatterns == {<<"a", "b">>, <<"a", ".", "*">>, <<"+">>, <<"a", ".">>}

PairScopes == {<<"a">>, <<"a", "b">>, <<"a", ".", "a", "b">>, <<"a", ".", "a">>}

WildcardHaystacks ==
    {<<>>} \cup {<<p>> : p \in Patterns} \cup {<<p, q>> : p, q \in PairPatterns}

HierarchicHaystacks ==
    {<<>>} \cup {<<s>> : s \in Scopes} \cup {<<s, t>> : s, t \in PairScopes}

-----------------------------------------------------------------------------
(* The scope strategies' calls *)

NoScopeCall == [op |-> "none", haystack |-> <<>>, needle |-> <<>>, result |-> FALSE]

ScopeIdle == scopeCall.op = "none"

ScopeInit == scopeCall = NoScopeCall

Hierarchic(haystack, needle) ==
    scopeCall' = [op |-> "Hierarchic", haystack |-> haystack, needle |-> needle,
                  result |-> HierarchicScopeStrategy(haystack, needle)]

Wildcard(haystack, needle) ==
    scopeCall' = [op |-> "Wildcard", haystack |-> haystack, needle |-> needle,
                  result |-> WildcardScopeStrategy(haystack, needle)]

ScopeReturn == ~ScopeIdle /\ scopeCall' = NoScopeCall

ScopeStep ==
    \/ /\ ScopeIdle
       /\ \E haystack \in HierarchicHaystacks, needle \in Scopes : Hierarchic(haystack, needle)
    \/ /\ ScopeIdle
       /\ \E haystack \in WildcardHaystacks, needle \in Scopes : Wildcard(haystack, needle)
    \/ ScopeReturn

-----------------------------------------------------------------------------
(* Properties of the scope strategies *)

\* the dot-segments of a scope; the empty scope has none
Segments(s) == IF s = <<>> THEN <<>> ELSE SplitDots(s)

\* a scope with a leading dot, a trailing dot or two consecutive dots
HasEmptySegment(s) == \E k \in 1..Len(Segments(s)) : Segments(s)[k] = <<>>

\* the pattern segments from i on cover the candidate segments from j on,
\* left to right: a literal equals one segment, + covers one segment, *
\* covers zero or more consecutive segments
RECURSIVE Covers(_, _, _, _)
Covers(psegs, i, csegs, j) ==
    IF i > Len(psegs) THEN j > Len(csegs)
    ELSE IF psegs[i] = <<"*">>
    THEN \E k \in j..(Len(csegs) + 1) : Covers(psegs, i + 1, csegs, k)
    ELSE /\ j <= Len(csegs)
         /\ psegs[i] = <<"+">> \/ psegs[i] = csegs[j]
         /\ Covers(psegs, i + 1, csegs, j + 1)

\* C13: WildcardScopeStrategy returns true iff the candidate has no empty
\* segment and, for some granted pattern, the pattern's segments cover the
\* candidate's segments left to right (literal: one equal segment, +: one
\* segment, *: zero or more consecutive segments).
C13_WildcardIsSegmentCover ==
    scopeCall.op = "Wildcard" =>
        (scopeCall.result <=>
            /\ ~HasEmptySegment(scopeCall.needle)
            /\ \E k \in 1..Len(scopeCall.haystack) :
                   Covers(Segments(scopeCall.haystack[k]), 1, Segments(scopeCall.needle), 1))

IsSegmentPrefix(a, b) == Len(a) <= Len(b) /\ SubSeq(b, 1, Len(a)) = a

\* the granted entry equals the needle or is a segment-wise prefix of it
Authorizes(this, needle) ==
    this = needle \/ IsSegmentPrefix(SplitDots(this), SplitDots(needle))

RECURSIVE Reverse(_)
Reverse(s) == IF s = <<>> THEN <<>> ELSE Append(Reverse(Tail(s)), Head(s))

\* C14: HierarchicScopeStrategy returns true iff some granted entry equals
\* the needle or its dot-segments are a segment-wise prefix of the needle's;
\* entries longer than the needle never authorize it, a mismatching entry
\* falls through to the next one, and the order of the entries does not matter.
C14_HierarchicIsSegmentPrefix ==
    scopeCall.op = "Hierarchic" =>
        /\ scopeCall.result <=>
               \E k \in 1..Len(scopeCall.haystack) :
                   Authorizes(scopeCall.haystack[k], scopeCall.needle)
        /\ (\A k \in 1..Len(scopeCall.haystack) :
                Len(scopeCall.haystack[k]) > Len(scopeCall.needle)) => ~scopeCall.result
        /\ scopeCall.result =
               HierarchicScopeStrategy(Reverse(scopeCall.haystack), scopeCall.needle)

\* C14 witness: the first of two entries shares the needle's first character
\* but not its first segment, the second is a proper segment prefix of the
\* needle, and the needle is authorized
C14_Witness ==
    /\ scopeCall.op = "Hierarchic"
    /\ Len(scopeCall.haystack) = 2
    /\ ~Authorizes(scopeCall.haystack[1], scopeCall.needle)
    /\ Len(scopeCall.haystack[1]) <= Len(scopeCall.needle)
    /\ scopeCall.haystack[2] # scopeCall.needle
    /\ Authorizes(scopeCall.haystack[2], scopeCall.needle)
    /\ scopeCall.result

\* C15: a candidate with an empty segment (leading dot, trailing dot or two
\* consecutive dots) is not matched by WildcardScopeStrategy, whatever the
\* granted patterns, the pattern * and the candidate itself included.
C15_EmptySegmentNeverMatches ==
    (scopeCall.op = "Wildcard" /\ HasEmptySegment(scopeCall.needle)) => ~scopeCall.result

\* C15 witness: a candidate ending in a dot was refused although the granted
\* pattern is the candidate itself
C15_Witness ==
    /\ scopeCall.op = "Wildcard"
    /\ scopeCall.needle = <<"a", ".">>
    /\ scopeCall.haystack = <<scopeCall.needle>>
    /\ ~scopeCall.result

-----------------------------------------------------------------------------
(* The engine's inputs *)

\* the empty pattern
EmptyPattern == <<>>

\* a:<.*>
OneGroup == <<"a", ":", "<", ".", "*", ">">>

\* a:<.?>
OptionalGroup == <<"a", ":", "<", ".", "?", ">">>

\* a:<<(?<=a:)b>>
Lookbehind == <<"a", ":", "<", "<", "(", "?", "<", "=", "a", ":", ")", "b", ">", ">">>

\* <<(?<n>a)>>:<<(?<5>b)>>
NamedGroups == <<"<", "<", "(", "?", "<", "n", ">", "a", ")", ">", ">", ":", "<", "<", "(", "?", "<", "5", ">", "b", ")", ">", ">">>

\* a:b
NoGroup == <<"a", ":", "b">>

\* {(?<=a)b}
RawSentinels == <<"{", "(", "?", "<", "=", "a", ")", "b", "}">>

\* a:<(?<=a:)b>
BadLookbehind == <<"a", ":", "<", "(", "?", "<", "=", "a", ":", ")", "b", ">">>

\* a:<b
Unclosed == <<"a", ":", "<", "b">>

\* <(>
BadSyntax == <<"<", "(", ">">>

\* <<(?>a)b
HalfDoubled == <<"<", "<", "(", "?", ">", "a", ")", "b">>

\* <<a>
StartDoubled == <<"<", "<", "a", ">">>

\* <a>>
EndDoubled == <<"<", "a", ">", ">">>

\* a:<<(?:(?<n>a))(?:\k<n>.*)>>
BackReference ==
    <<"a", ":", "<", "<", "(", "?", ":", "(", "?", "<", "n", ">", "a", ")", ")",
      "(", "?", ":", "\\", "k", "<", "n", ">", ".", "*", ")", ">", ">">>

\* patterns that compile
GoodPatterns ==
    {EmptyPattern, OneGroup, OptionalGroup, Lookbehind, NamedGroups, NoGroup, RawSentinels,
     StartDoubled, EndDoubled, BackReference}

\* patterns that compile rejects
BadPatterns == {BadLookbehind, Unclosed, BadSyntax, HalfDoubled}

EnginePatterns == GoodPatterns \cup BadPatterns

EngineTexts ==
    {<<>>, <<"a", ":", "b">>, <<"a", ":">>, <<"b">>, <<"a", ":", "b", ":", "a">>,
     <<"a", ":", "a", "a", "a">>}

Replacements == {<<"b">>}

Operations == {"IsMatching", "ReplaceAllString", "FindStringSubmatch", "FindNamedStringSubmatch"}

\* the inputs of two tasks sharing engines
SharedPatterns == {EmptyPattern, OneGroup, Unclosed}

SharedTexts == {<<"a", ":", "b">>}

SharedOperations == {"IsMatching"}

EngineIds == {1, 2}

TaskIds == {1, 2}

\* the engines a task calls: task 1 its own, task 2 its own or task 1's
EnginesOf(t) == IF t = 1 THEN {1} ELSE EngineIds

-----------------------------------------------------------------------------
(* The engine's calls.  A task runs one operation at a time, statement by   *)
(* statement: compile compares the checksum (line 28), builds the matcher   *)
(* (lines 29-50), stores it (line 51), stores the checksum (line 52); the   *)
(* operation then uses re.compiled.  The fields before, repeated, used and  *)
(* overlapped of a task only record what happened: the matcher and checksum *)
(* of the engine at the call, whether the latest compile that returned on   *)
(* the engine was of the same pattern and returned nil, the matcher the     *)
(* operation used, and whether another task ran an operation on the same    *)
(* engine during this one.  So does the field last of an engine: the        *)
(* pattern of the latest compile that returned on it, and whether it        *)
(* returned nil.                                                            *)

\* new(regexpMatchingEngine): no matcher, checksum 0, no table
NewEngine ==
    [compiled |-> <<>>, checksum |-> 0, table |-> FALSE,
     last |-> [pattern |-> <<>>, ok |-> FALSE]]

IdleTask ==
    [pc |-> "idle", engine |-> 1, op |-> "none", pattern |-> <<>>, text |-> <<>>,
     replacement |-> <<>>, checksum |-> 0, built |-> <<>>, used |-> <<>>,
     result |-> [err |-> "none", value |-> <<>>], overlapped |-> FALSE,
     before |-> [compiled |-> <<>>, checksum |-> 0], repeated |-> FALSE]

EngineInit ==
    /\ engines = [e \in EngineIds |-> NewEngine]
    /\ tasks = [t \in TaskIds |-> IdleTask]

Running(t) == tasks[t].pc \notin {"idle", "done"}

\* the entry of an operation and of its compile: lines 24-27
Call(t, e, op, pattern, text, replacement) ==
    LET others == {u \in TaskIds \ {t} : Running(u) /\ tasks[u].engine = e}
        started == [IdleTask EXCEPT !.pc = "compile", !.engine = e, !.op = op,
                                    !.pattern = pattern, !.text = text,
                                    !.replacement = replacement,
                                    !.overlapped = others # {},
                                    !.before = [compiled |-> engines[e].compiled,
                                                checksum |-> engines[e].checksum],
                                    !.repeated =
                                        engines[e].last = [pattern |-> pattern, ok |-> TRUE]]
    IN  /\ tasks[t].pc = "idle"
        /\ tasks' = [u \in TaskIds |->
                        IF u = t THEN started
                        ELSE IF u \in others THEN [tasks[u] EXCEPT !.overlapped = TRUE]
                        ELSE tasks[u]]
        /\ engines' = [engines EXCEPT ![e].table = TRUE]

\* line 28, the checksum equals the stored one: compile returns nil
CacheHit(t) ==
    /\ tasks[t].pc = "compile"
    /\ crc64Checksum(tasks[t].pattern) = engines[tasks[t].engine].checksum
    /\ tasks' = [tasks EXCEPT ![t].pc = "use",
                              ![t].checksum = crc64Checksum(tasks[t].pattern)]
    /\ engines' = [engines EXCEPT ![tasks[t].engine].last =
                                     [pattern |-> tasks[t].pattern, ok |-> TRUE]]

\* lines 28-50, the checksum differs and the pattern is rejected: the
\* operation returns the error
CompileFails(t) ==
    /\ tasks[t].pc = "compile"
    /\ crc64Checksum(tasks[t].pattern) # engines[tasks[t].engine].checksum
    /\ Compiled(tasks[t].pattern).err # "nil"
    /\ tasks' = [tasks EXCEPT ![t].pc = "done",
                              ![t].checksum = crc64Checksum(tasks[t].pattern),
                              ![t].result = [err |-> Compiled(tasks[t].pattern).err,
                                             value |-> <<>>]]
    /\ engines' = [engines EXCEPT ![tasks[t].engine].last =
                                     [pattern |-> tasks[t].pattern, ok |-> FALSE]]

\* lines 28-50, the checksum differs and the pattern compiles
Compiles(t) ==
    /\ tasks[t].pc = "compile"
    /\ crc64Checksum(tasks[t].pattern) # engines[tasks[t].engine].checksum
    /\ Compiled(tasks[t].pattern).err = "nil"
    /\ tasks' = [tasks EXCEPT ![t].pc = "store",
                              ![t].checksum = crc64Checksum(tasks[t].pattern),
                              ![t].built = <<Compiled(tasks[t].pattern).re>>]
    /\ UNCHANGED engines

\* line 51: re.compiled = compiled
StoreCompiled(t) ==
    /\ tasks[t].pc = "store"
    /\ engines' = [engines EXCEPT ![tasks[t].engine].compiled = tasks[t].built]
    /\ tasks' = [tasks EXCEPT ![t].pc = "checksum"]

\* line 52: re.checksum = checksum, and compile returns nil
StoreChecksum(t) ==
    /\ tasks[t].pc = "checksum"
    /\ engines' = [engines EXCEPT ![tasks[t].engine].checksum = tasks[t].checksum,
                                  ![tasks[t].engine].last =
                                     [pattern |-> tasks[t].pattern, ok |-> TRUE]]
    /\ tasks' = [tasks EXCEPT ![t].pc = "use"]

\* lines 67, 75, 84-98, 108-118: the operation on re.compiled; a nil
\* re.compiled is dereferenced and the operation panics
Use(t) ==
    LET compiled == engines[tasks[t].engine].compiled
    IN  /\ tasks[t].pc = "use"
        /\ tasks' = [tasks EXCEPT
                        ![t].pc = "done",
                        ![t].used = compiled,
                        ![t].result =
                            IF compiled = <<>> THEN [err |-> "panic", value |-> <<>>]
                            ELSE Operate(tasks[t].op, compiled[1], tasks[t].text,
                                         tasks[t].replacement)]
        /\ UNCHANGED engines

\* the caller has the result
EngineReturn(t) ==
    /\ tasks[t].pc = "done"
    /\ tasks' = [tasks EXCEPT ![t] = IdleTask]
    /\ UNCHANGED engines

\* one task on one engine, every pattern, text and operation
EngineStep ==
    \/ /\ tasks[1].pc = "idle"
       /\ \E op \in Operations, pattern \in EnginePatterns, text \in EngineTexts :
             \E replacement \in (IF op = "ReplaceAllString" THEN Replacements ELSE {<<>>}) :
                Call(1, 1, op, pattern, text, replacement)
    \/ CacheHit(1)
    \/ CompileFails(1)
    \/ Compiles(1)
    \/ StoreCompiled(1)
    \/ StoreChecksum(1)
    \/ Use(1)
    \/ EngineReturn(1)

\* two tasks, each operation on either engine, statements interleaved
SharedStep ==
    \E t \in TaskIds :
        \/ /\ tasks[t].pc = "idle"
           /\ \E e \in EnginesOf(t), op \in SharedOperations, pattern \in SharedPatterns,
                 text \in SharedTexts :
                 Call(t, e, op, pattern, text, <<>>)
        \/ CacheHit(t)
        \/ CompileFails(t)
        \/ Compiles(t)
        \/ StoreCompiled(t)
        \/ StoreChecksum(t)
        \/ Use(t)
        \/ EngineReturn(t)

-----------------------------------------------------------------------------
(* Properties of the matching engine *)

\* the errors compile returns
CompileErrors == {"delimiters", "unbalanced", "syntax"}

\* the operation of task t has returned
Returned(t) == tasks[t].pc = "done"

\* compile has returned nil to the operation of task t
CompileSucceeded(t) ==
    \/ tasks[t].pc = "use"
    \/ Returned(t) /\ tasks[t].result.err \notin CompileErrors

\* compile has returned an error to the operation of task t
CompileFailed(t) == Returned(t) /\ tasks[t].result.err \in CompileErrors

\* the same error, and the same value when there is no error
SameResult(a, b) == a.err = b.err /\ (a.err = "nil" => a.value = b.value)

\* what the operation returns on an engine that was just constructed
FreshResult(op, pattern, text, replacement) ==
    IF crc64Checksum(pattern) = NewEngine.checksum
    THEN [err |-> "panic", value |-> <<>>]
    ELSE IF Compiled(pattern).err # "nil"
    THEN [err |-> Compiled(pattern).err, value |-> <<>>]
    ELSE Operate(op, Compiled(pattern).re, text, replacement)

\* C11: on one engine, an operation whose pattern is the one of the compile
\* that returned nil just before it does not compile again, uses the matcher
\* the engine held, and returns what a fresh engine returns for the pattern
C11_CachedEqualsFresh ==
    \A t \in TaskIds :
        (Returned(t) /\ tasks[t].repeated) =>
            /\ tasks[t].built = <<>>
            /\ tasks[t].used = tasks[t].before.compiled
            /\ SameResult(tasks[t].result,
                          FreshResult(tasks[t].op, tasks[t].pattern, tasks[t].text,
                                      tasks[t].replacement))

\* C12: a compile that fails leaves the engine's matcher and checksum as they
\* were at the call, and an operation on a pattern that compile rejects
\* returns the compile error whatever the engine did before
C12_FailureIsNotCached ==
    \A t \in TaskIds :
        /\ CompileFailed(t) =>
              /\ engines[tasks[t].engine].compiled = tasks[t].before.compiled
              /\ engines[tasks[t].engine].checksum = tasks[t].before.checksum
        /\ (tasks[t].pc \in {"use", "done"} /\ Compiled(tasks[t].pattern).err # "nil") =>
              /\ CompileFailed(t)
              /\ tasks[t].result.err = Compiled(tasks[t].pattern).err

\* the pattern, once << and >> are rewritten, contains (?> or (?<
HasLookGroup(pattern) ==
    LET rewritten == Delimiters(pattern).pattern
    IN  \/ ContainsSub(rewritten, <<"(", "?", ">">>)
        \/ ContainsSub(rewritten, <<"(", "?", "<">>)

\* the pattern contains both doubled delimiters
HasDoubledDelimiters(pattern) ==
    ContainsSub(pattern, <<"<", "<">>) /\ ContainsSub(pattern, <<">", ">">>)

\* C16: an operation on a pattern with (?> or (?< and without both doubled
\* delimiters returns a compile error and leaves the engine as it was, and
\* the lookbehind pattern with doubled delimiters matches its text
C16_LookGroupsNeedDoubledDelimiters ==
    \A t \in TaskIds :
        /\ (tasks[t].pc \in {"use", "done"} /\ HasLookGroup(tasks[t].pattern)
              /\ ~HasDoubledDelimiters(tasks[t].pattern)) =>
              /\ CompileFailed(t)
              /\ engines[tasks[t].engine].compiled = tasks[t].before.compiled
              /\ engines[tasks[t].engine].checksum = tasks[t].before.checksum
        /\ (Returned(t) /\ tasks[t].pattern = Lookbehind
              /\ tasks[t].text = <<"a", ":", "b">>) =>
              /\ tasks[t].result.err = "nil"
              /\ tasks[t].op = "IsMatching" => tasks[t].result.value

\* the groups after group 0 that the matcher re finds in text
GroupsOf(re, text) == FindStringMatch(re, text).groups

\* the positions of the groups whose name is their own position in decimal
InPosition(groups) ==
    {k \in 1..Len(groups) : Atoi(groups[k].Name).ok /\ Atoi(groups[k].Name).n = k}

\* the captures of the groups at the positions `positions`, in group order
CapturesAt(groups, positions) ==
    [i \in 1..Cardinality(positions) |-> groups[SortedNumbers(positions)[i]].String]

C18_OwnPatternWhenNotOverlapped ==
    \A t \in TaskIds :
        (Returned(t) /\ ~tasks[t].overlapped /\ CompileSucceeded(t)) =>
            tasks[t].used = <<Compiled(tasks[t].pattern).re>>

\* C18, shared: two overlapping operations on one engine with different
\* patterns, one of them having used the matcher of the other's pattern
C18_Interleaving ==
    \E t, u \in TaskIds :
        /\ t # u
        /\ Returned(t) /\ tasks[t].overlapped
        /\ tasks[u].pc # "idle" /\ tasks[u].engine = tasks[t].engine
        /\ tasks[u].pattern # tasks[t].pattern
        /\ Compiled(tasks[t].pattern).err = "nil" /\ Compiled(tasks[u].pattern).err = "nil"
        /\ Compiled(tasks[t].pattern).re # Compiled(tasks[u].pattern).re
        /\ tasks[t].used = <<Compiled(tasks[u].pattern).re>>

\* C20: when compile has returned nil the engine holds a matcher, so that no
\* operation uses an absent one
C20_MatcherAfterCompile ==
    \A t \in TaskIds :
        /\ tasks[t].pc = "use" => engines[tasks[t].engine].compiled # <<>>
        /\ Returned(t) => tasks[t].result.err # "panic"

\* compile has handed the pattern of task t to compiler.CompileRegex
HandedToCompiler(t) ==
    \/ tasks[t].built # <<>>
    \/ Returned(t) /\ tasks[t].result.err \in {"unbalanced", "syntax"}

\* C22: the delimiter pair handed to the compiler is the sentinel pair only
\* for a pattern with both << and >>, and the plain pair < > for every other
\* pattern that reaches the compiler
C22_DelimiterPair ==
    \A t \in TaskIds :
        HandedToCompiler(t) =>
            LET d == Delimiters(tasks[t].pattern)
            IN  /\ (d.startDelim = startSentinel /\ d.endDelim = endSentinel) =>
                      HasDoubledDelimiters(tasks[t].pattern)
                /\ ~HasDoubledDelimiters(tasks[t].pattern) =>
                      (d.startDelim = "<" /\ d.endDelim = ">")

\* the captures of all the groups, in group order
AllCaptures(groups) == [k \in 1..Len(groups) |-> groups[k].String]

\* C27: on a match, FindStringSubmatch returns the capture of every group of
\* the match, the groups with an explicit name included; for the pattern
\* a:<<(?:(?<n>a))(?:\k<n>.*)>> against a:aaa it returns aaa and a.
C27_EveryGroupReturned ==
    \A t \in TaskIds :
        (Returned(t) /\ tasks[t].op = "FindStringSubmatch" /\ tasks[t].result.err = "nil") =>
            /\ tasks[t].result.value = AllCaptures(GroupsOf(tasks[t].used[1], tasks[t].text))
            /\ (tasks[t].used = <<Compiled(BackReference).re>>
                  /\ tasks[t].text = <<"a", ":", "a", "a", "a">>) =>
                  tasks[t].result.value = <<<<"a", "a", "a">>, <<"a">>>>

-----------------------------------------------------------------------------
(* matchFrom: inputs, and the property of its calls *)

\* patterns of up to MaxSegments segments, each "*" or a literal, the empty
\* segment included, and the patterns of the examples
MatchPatterns ==
    {JoinDots(l) : l \in SeqsUpTo({<<"*">>, <<"a">>, <<>>}, MaxSegments)} \cup ExamplePatterns

\* candidates of up to MaxSegments segments, the empty segment included (a
\* candidate that ends with a dot ends at a segment boundary), and the
\* candidates of the examples
MatchCandidates ==
    {JoinDots(l) : l \in SeqsUpTo({<<"a">>, <<>>}, MaxSegments)} \cup ExampleScopes

MatchStep ==
    \/ /\ MatchIdle
       /\ \E pattern \in MatchPatterns, candidate \in MatchCandidates :
            MatchFromCall(pattern, candidate)
    \/ MatchRun
    \/ MatchFromReturn

MatchRunning == ~MatchIdle /\ Depth > 0

MatchReturned == ~MatchIdle /\ Depth = 0 /\ matching.ret # "none"

\* every call in progress was made by the one below it with a larger pattern
\* index, within the pattern
PatternIndexAdvances ==
    \A k \in 1..Depth :
        /\ matching.stack[k].pi <= Len(matching.pattern)
        /\ matching.stack[k].ci <= Len(matching.candidate)
        /\ k > 1 => matching.stack[k].pi > matching.stack[k - 1].pi

\* a step that starts another iteration of the loop of line 140 has moved
\* ciTry forward, within the candidate
CandidateIndexAdvances ==
    (Depth > 0 /\ Top.pc = "loop" /\ Len(matching'.stack) = Depth + 1) =>
        /\ matching'.stack[Depth].ciTry > Top.ciTry
        /\ matching'.stack[Depth].ciTry <= Len(matching.candidate)

StarSegments(pattern) ==
    Cardinality({k \in 1..Len(pattern) :
                    /\ pattern[k] = "*"
                    /\ k = 1 \/ pattern[k - 1] = "."
                    /\ k = Len(pattern) \/ pattern[k + 1] = "."})

\* C29: matchFrom terminates for every pattern and candidate: every call in
\* progress returns, each recursive call has a strictly larger pattern index
\* than its caller, and each further iteration of the "*" trial loop has a
\* strictly larger candidate index, until the candidate is exhausted.
C29_MatchFromTerminates ==
    /\ []PatternIndexAdvances
    /\ [][CandidateIndexAdvances]_matchVars
    /\ (MatchRunning ~> MatchReturned)

\* C29 witness: a call returned for a pattern with two "*" segments and a
\* candidate that ends at a segment boundary, after two further iterations of
\* a trial loop
C29_Witness ==
    /\ MatchReturned
    /\ StarSegments(matching.pattern) >= 2
    /\ Len(matching.candidate) > 0
    /\ matching.candidate[Len(matching.candidate)] = "."
    /\ matching.trials >= 2

\* the value the calls give back is the value of matchFrom
StepsAgreeWithMatchFrom ==
    MatchReturned =>
        (matching.ret = "true") = matchFrom(matching.pattern, 0, matching.candidate, 0)

-----------------------------------------------------------------------------
(* Properties of the reusable reader *)

\* Authenticate has read the body through the reusable reader
BodyConsumed == reader.pc = "stage"

\* C26: once Authenticate has consumed the body through the reusable reader,
\* the bytes it hands to the verifier are the original body, every later read
\* of the body up to end-of-file has yielded the original body, and the
\* reader again holds the original body for the next one.
C26_BodyIsReplayable ==
    BodyConsumed =>
        /\ reader.body = reader.original
        /\ reader.passes > 0 => reader.last = reader.original
        /\ reader.pass = <<>> =>
               (reader.r.readBuf = reader.original /\ reader.r.backBuf = <<>>)

\* C26 witness: a body of MaxBodyLen bytes has been read to end-of-file twice
\* in a row after Authenticate read it
C26_Witness ==
    /\ BodyConsumed
    /\ Len(reader.original) = MaxBodyLen
    /\ reader.passes = 2
    /\ reader.pass = <<>>
    /\ reader.last = reader.original

-----------------------------------------------------------------------------
(* The specifications *)

\* NewAuthorizerRemoteJSON: an empty template set and the default client
AuthorizerInit ==
    /\ templates = <<>>
    /\ client = [maxRetryWait |-> 0, connectionTimeout |-> 0]
    /\ azCall = NoAuthorizerCall
    /\ azOutcome = NoAuthorizerOutcome

Init ==
    /\ AuthnInit /\ AuthorizerInit /\ ScopeInit /\ EngineInit
    /\ MatchInit /\ CallersInit /\ ReaderInit

\* the authenticator alone
AuthnNext == AuthnStep /\ UNCHANGED <<authzVars, scopeVars, engineVars, matchVars, callerVars, readerVars>>

SpecAuthn == Init /\ [][AuthnNext]_vars

\* the authorizer alone
AuthzNext == AuthorizerNext /\ UNCHANGED <<authnVars, scopeVars, engineVars, matchVars, callerVars, readerVars>>

SpecAuthz == Init /\ [][AuthzNext]_vars

\* the scope strategies alone
ScopeNext == ScopeStep /\ UNCHANGED <<authnVars, authzVars, engineVars, matchVars, callerVars, readerVars>>

SpecScope == Init /\ [][ScopeNext]_vars

\* one task calling one engine
EngineNext ==
    EngineStep /\ UNCHANGED <<authnVars, authzVars, scopeVars, matchVars, callerVars, readerVars>>

SpecEngine == Init /\ [][EngineNext]_vars

\* two tasks calling two engines
SharedNext ==
    SharedStep /\ UNCHANGED <<authnVars, authzVars, scopeVars, matchVars, callerVars, readerVars>>

SpecEngineShared == Init /\ [][SharedNext]_vars

\* two calls at a time on one authenticator
CallerNext ==
    /\ CallerStep
    /\ UNCHANGED <<config, request, now, verifies, outcome>>
    /\ UNCHANGED <<authzVars, scopeVars, engineVars, matchVars, readerVars>>

SpecAuthnShared == Init /\ [][CallerNext]_vars

\* one request body and its readers
ReaderNext ==
    ReaderStep /\ UNCHANGED <<authnVars, authzVars, scopeVars, engineVars, matchVars, callerVars>>

SpecReader == Init /\ [][ReaderNext]_vars

\* matchFrom alone
MatchNext ==
    MatchStep /\ UNCHANGED <<authnVars, authzVars, scopeVars, engineVars, callerVars, readerVars>>

SpecMatch == Init /\ [][MatchNext]_vars

\* matchFrom runs on its caller's goroutine: a call in progress takes its next
\* step
SpecMatchFair == SpecMatch /\ WF_matchVars(MatchRun)

=============================================================================
